---- MODULE Spec2Model ----
(***************************************************************************)
(* RouteSafe Navigator: the route-request / response / render pipeline of  *)
(* the front-end variants kept in the repository, as one state machine.    *)
(*                                                                         *)
(* The repository holds several near-duplicate front ends.  The variable   *)
(* `variant` says which of them the page runs:                             *)
(*   "m1"  src/main.js 1-311            routeForm submit handler (v1.1)    *)
(*   "m2"  src/main.js 312-438          handleRouteRequest                 *)
(*   "p1a" src/unnamed/part_001 1-439   submit handler with demo fallback  *)
(*   "p1b" src/unnamed/part_001 440-653 handleRouteSubmit                  *)
(*   "p2"  src/unnamed/part_002         handlePlanRoute                    *)
(*   "p3"  src/unnamed/part_003         handleGenerateRoute                *)
(*   "p4"  src/unnamed/part_004         handleGenerateClick                *)
(*   "p5"  src/unnamed/part_005         form submit + callRouteSafeAPI     *)
(*   "fa"  src/frontend/main.js 1-213   handleGenerate                     *)
(*   "fb"  src/frontend/main.js 214-408 generateRoute                      *)
(*                                                                         *)
(* Numbers that the page formats are fixed point, in tenths (27.3 is 273); *)
(* coordinates are opaque integers (thousandths of a degree).  Page texts  *)
(* are written in ASCII: "--" for the en dash placeholder, "..." for the   *)
(* ellipsis, "|" for the middle dot.                                       *)
(***************************************************************************)
EXTENDS Integers, Sequences, FiniteSets, TLC

VARIABLES variant, domOk, btnDisabled, inflight, view, nPosts, last

vars == <<variant, domOk, btnDisabled, inflight, view, nPosts, last>>

(***************************************************************************)
(* Bounds of the model.                                                    *)
(***************************************************************************)
\* POSTs one page session issues at most
MaxPosts == 2

(***************************************************************************)
(* JavaScript values.  Every value is a tagged record so that values of    *)
(* different JavaScript types can be compared.                             *)
(***************************************************************************)
U == [t |-> "undef"]
Null == [t |-> "null"]
NaN == [t |-> "nan"]
N(n) == [t |-> "num", n |-> n]
S(s) == [t |-> "str", s |-> s]
B(b) == [t |-> "bool", b |-> b]
O(r) == [t |-> "obj", f |-> r]
A(q) == [t |-> "arr", a |-> q]

\* x == null  (null or undefined)
Nullish(x) == x.t \in {"undef", "null"}

\* ToBoolean
Truthy(x) ==
  CASE x.t \in {"undef", "null", "nan"} -> FALSE
    [] x.t = "num" -> x.n # 0
    [] x.t = "str" -> x.s # ""
    [] x.t = "bool" -> x.b
    [] OTHER -> TRUE

\* x.k for a value that is not null/undefined (own data properties only)
Get(x, k) == IF x.t = "obj" /\ k \in DOMAIN x.f THEN x.f[k] ELSE U

\* x?.k
OptGet(x, k) == IF Nullish(x) THEN U ELSE Get(x, k)

\* a ?? b
Coalesce(a, b) == IF Nullish(a) THEN b ELSE a

\* a || b
OrElse(a, b) == IF Truthy(a) THEN a ELSE b

IsArray(x) == x.t = "arr"
IsNumber(x) == x.t \in {"num", "nan"}
IsString(x) == x.t = "str"

\* x.length
LengthOf(x) ==
  CASE x.t = "arr" -> N(10 * Len(x.a))
    [] x.t = "str" -> N(10)
    [] OTHER -> U

(***************************************************************************)
(* Text.  Input fields hold sequences of one-character strings, so that    *)
(* trimming and parsing are computed character by character; text shown on *)
(* the page is a string.                                                   *)
(***************************************************************************)
DigitChars == <<"0", "1", "2", "3", "4", "5", "6", "7", "8", "9">>

IsDigit(c) == \E i \in 1..10 : DigitChars[i] = c

DigitVal(c) == (CHOOSE i \in 1..10 : DigitChars[i] = c) - 1

RECURSIVE IntStr(_)
IntStr(n) == IF n < 10 THEN DigitChars[n + 1]
             ELSE IntStr(n \div 10) \o DigitChars[(n % 10) + 1]

RECURSIVE Join(_)
Join(q) == IF q = <<>> THEN "" ELSE Head(q) \o Join(Tail(q))

RECURSIVE LTrim(_)
LTrim(q) == IF q # <<>> /\ Head(q) = " " THEN LTrim(Tail(q)) ELSE q

RECURSIVE RTrim(_)
RTrim(q) == IF q # <<>> /\ q[Len(q)] = " " THEN RTrim(SubSeq(q, 1, Len(q) - 1)) ELSE q

\* String.prototype.trim
Trim(q) == RTrim(LTrim(q))

RECURSIVE DigitsLen(_)
DigitsLen(q) == IF q # <<>> /\ IsDigit(Head(q)) THEN 1 + DigitsLen(Tail(q)) ELSE 0

RECURSIVE DigitsVal(_, _)
DigitsVal(q, acc) == IF q = <<>> THEN acc ELSE DigitsVal(Tail(q), 10 * acc + DigitVal(Head(q)))

Drop(q, k) == SubSeq(q, k + 1, Len(q))

\* An unsigned decimal literal at the head of q: [ok, n (tenths), len].
\* Digits after the first decimal place are read and dropped.
DecimalPrefix(q) ==
  LET il == DigitsLen(q)
      afterInt == Drop(q, il)
      hasDot == afterInt # <<>> /\ Head(afterInt) = "."
      fl == IF hasDot THEN DigitsLen(Tail(afterInt)) ELSE 0
      ip == DigitsVal(SubSeq(q, 1, il), 0)
      fd == IF fl > 0 THEN DigitVal(afterInt[2]) ELSE 0
  IN  IF il = 0 /\ fl = 0 THEN [ok |-> FALSE, n |-> 0, len |-> 0]
      ELSE [ok |-> TRUE, n |-> 10 * ip + fd,
            len |-> il + (IF hasDot THEN 1 + fl ELSE 0)]

Signed(q) ==
  IF q # <<>> /\ Head(q) \in {"-", "+"}
    THEN [neg |-> Head(q) = "-", rest |-> Tail(q)]
    ELSE [neg |-> FALSE, rest |-> q]

\* parseFloat: leading white space skipped, the longest numeric prefix read,
\* whatever follows ignored; NaN when there is no numeric prefix.
parseFloat(q) ==
  LET sg == Signed(LTrim(q))
      d == DecimalPrefix(sg.rest)
  IN  IF ~d.ok THEN NaN ELSE N(IF sg.neg THEN 0 - d.n ELSE d.n)

\* Number(string): white space trimmed, "" is 0, and the whole of what is
\* left must be a numeric literal.
ToNumber(q) ==
  LET t == Trim(q)
      sg == Signed(t)
      d == DecimalPrefix(sg.rest)
  IN  IF t = <<>> THEN N(0)
      ELSE IF ~d.ok \/ d.len # Len(sg.rest) THEN NaN
      ELSE N(IF sg.neg THEN 0 - d.n ELSE d.n)

\* isNaN / Number.isNaN of the result of a numeric conversion
isNaN(x) == x.t = "nan"

\* Number.prototype.toString of a value in tenths
NumStr(n) ==
  LET m == IF n < 0 THEN 0 - n ELSE n
      body == IF m % 10 = 0 THEN IntStr(m \div 10)
              ELSE IntStr(m \div 10) \o "." \o DigitChars[(m % 10) + 1]
  IN  IF n < 0 THEN "-" \o body ELSE body

\* Math.round of a value in tenths: the nearest integer, halves upwards
MathRound(n) == (n + 5) \div 10

\* toFixed(0): the nearest integer, halves away from zero
toFixed0(n) ==
  IF n < 0 THEN "-" \o IntStr(((0 - n) + 5) \div 10) ELSE IntStr((n + 5) \div 10)

IntStrSigned(i) == IF i < 0 THEN "-" \o IntStr(0 - i) ELSE IntStr(i)

\* toFixed(1)
toFixed1(n) ==
  LET m == IF n < 0 THEN 0 - n ELSE n
  IN  (IF n < 0 THEN "-" ELSE "") \o IntStr(m \div 10) \o "." \o DigitChars[(m % 10) + 1]

\* toFixed(2)
toFixed2(n) == toFixed1(n) \o "0"

(***************************************************************************)
(* JSON.stringify and string conversion.  Object keys are written in the   *)
(* order KeyOrder lists them (the order the sample payloads write them).   *)
(***************************************************************************)
KeyOrder == <<"detail", "msg", "level", "message", "instruction", "text",
              "lat", "lon", "height_m", "risk_level", "description",
              "has_conflict", "type", "coordinates">>

RECURSIVE JoinWith(_, _)
JoinWith(q, sep) ==
  IF q = <<>> THEN ""
  ELSE IF Len(q) = 1 THEN Head(q)
  ELSE Head(q) \o sep \o JoinWith(Tail(q), sep)

RECURSIVE JSONstringify(_)
JSONstringify(x) ==
  CASE x.t = "str" -> "\"" \o x.s \o "\""
    [] x.t = "num" -> NumStr(x.n)
    [] x.t = "bool" -> IF x.b THEN "true" ELSE "false"
    [] x.t = "arr" ->
         "[" \o JoinWith([i \in 1..Len(x.a) |->
                            IF x.a[i].t = "undef" THEN "null"
                            ELSE JSONstringify(x.a[i])], ",") \o "]"
    [] x.t = "obj" ->
         LET ks == SelectSeq(KeyOrder, LAMBDA k : k \in DOMAIN x.f /\ x.f[k].t # "undef")
         IN  "{" \o JoinWith([i \in 1..Len(ks) |->
                                "\"" \o ks[i] \o "\":" \o JSONstringify(x.f[ks[i]])], ",")
                 \o "}"
    [] OTHER -> "null"

\* String(x), as string concatenation and textContent apply it
RECURSIVE JsString(_)
JsString(x) ==
  CASE x.t = "str" -> x.s
    [] x.t = "num" -> NumStr(x.n)
    [] x.t = "nan" -> "NaN"
    [] x.t = "bool" -> IF x.b THEN "true" ELSE "false"
    [] x.t = "undef" -> "undefined"
    [] x.t = "null" -> "null"
    [] x.t = "arr" -> JoinWith([i \in 1..Len(x.a) |->
                                  IF Nullish(x.a[i]) THEN "" ELSE JsString(x.a[i])], ",")
    [] OTHER -> "[object Object]"

\* String.prototype.toLowerCase on the texts the payloads carry
toLowerCase(s) ==
  CASE s = "High risk" -> "high risk"
    [] s = "Medium risk" -> "medium risk"
    [] s = "Low risk" -> "low risk"
    [] s = "Unknown" -> "unknown"
    [] s = "HIGH" -> "high"
    [] OTHER -> s

\* String.prototype.includes on the lower-cased texts the payloads carry
includes(s, w) ==
  CASE w = "low" -> s \in {"low", "low risk"}
    [] w = "medium" -> s \in {"medium", "medium risk"}
    [] w = "high" -> s \in {"high", "high risk"}
    [] OTHER -> FALSE

(***************************************************************************)
(* What a handler or a render function returns: the page it leaves, and    *)
(* whether it threw.  A function that throws leaves the page as it was at  *)
(* the throw, with the writes made before it.                              *)
(***************************************************************************)
Ok(v) == [v |-> v, ex |-> FALSE]
Throw(v) == [v |-> v, ex |-> TRUE]

\* the index of the first element of q on which a loop body throws,
\* Len(q) + 1 when it throws on none
FirstBad(q, Bad(_)) ==
  IF \E i \in 1..Len(q) : Bad(q[i])
    THEN CHOOSE i \in 1..Len(q) : Bad(q[i]) /\ \A j \in 1..(i - 1) : ~Bad(q[j])
    ELSE Len(q) + 1

(***************************************************************************)
(* The page.  Lists are the <li> texts in order; a map role holds the      *)
(* layers of that role now on the map (main: solid polylines, alt: dashed  *)
(* polylines, bridges: circle markers), a polyline being its [lat, lon]    *)
(* points; fit is the set of points of the last fitBounds call.            *)
(***************************************************************************)
NoMap == [main |-> <<>>, alt |-> <<>>, bridges |-> <<>>]

InitView ==
  [status |-> "", error |-> "", errorShown |-> FALSE,
   distance |-> "", duration |-> "", riskText |-> "", badgeText |-> "",
   badgeClass |-> "", nearest |-> "", nearestDist |-> "",
   cardHidden |-> TRUE,
   warnings |-> <<>>, warningsHidden |-> TRUE,
   steps |-> <<>>, stepsHidden |-> TRUE,
   geometryDebug |-> "",
   map |-> NoMap, fit |-> {}, mapEmpty |-> TRUE]

\* c[i] (1-based here) for a value that is not null/undefined
Elem(c, i) == IF c.t = "arr" /\ i <= Len(c.a) THEN c.a[i] ELSE U

\* GeoJSON [lon, lat] to Leaflet [lat, lon]:  c => [c[1], c[0]]
LatLng(c) == <<Elem(c, 2), Elem(c, 1)>>

\* Leaflet's LatLng constructor throws on a coordinate that is not a number
BadLatLng(lat, lon) == lat.t # "num" \/ lon.t # "num"

\* the points a set of polylines and markers spans (an argument of fitBounds)
PointsOf(line) == {line[i] : i \in 1..Len(line)}

(***************************************************************************)
(* Sample responses of the backend.  Payloads are the 2xx JSON bodies the  *)
(* page is tried on; between them they carry every response shape one of   *)
(* the variants expects.                                                   *)
(***************************************************************************)
Pt(lon, lat) == A(<<N(lon), N(lat)>>)
Line2 == A(<<Pt(-1600, 53800), Pt(-1500, 53700)>>)
Line3 == A(<<Pt(-1602, 53758), Pt(-1550, 53750), Pt(-2250, 53480)>>)
AltLine3 == A(<<Pt(-1602, 53758), Pt(-1620, 53720), Pt(-2250, 53480)>>)
LineString(coords) == O([type |-> S("LineString"), coordinates |-> coords])

\* the response of the spec's round-trip scenario
PayloadCanonical ==
  O([summary |-> O([distance_km |-> N(273), duration_min |-> N(420)]),
     bridge_risk |-> O([level |-> S("high"), status_text |-> S("x")]),
     warnings |-> A(<<S("w1")>>),
     steps |-> A(<<S("s1")>>),
     geometry |-> LineString(Line2)])

\* the body {}
PayloadEmpty == O([k \in {} |-> U])

\* what the backend's build_demo_route returns for a vehicle above 4.8 m
PayloadDemoHigh ==
  O([summary |-> O([distance_km |-> N(273), duration_min |-> N(420)]),
     distance_km |-> N(273),
     duration_min |-> N(420),
     bridge_risk |-> O([level |-> S("high"),
                        status_text |-> S("Low bridge on direct path; alternative offered."),
                        nearest_bridge_height_m |-> N(46),
                        nearest_bridge_distance_m |-> N(1300)]),
     warnings |-> A(<<O([level |-> S("high"),
                         message |-> S("Low bridge (4.6 m) detected near Morley; main route diverted.")])>>),
     steps |-> A(<<O([instruction |-> S("Head towards M62 via A650.")]),
                   O([instruction |-> S("Follow HGV diversion avoiding low bridge near Morley.")])>>),
     geometry |-> LineString(Line3),
     alt_geometry |-> LineString(AltLine3),
     bridge_markers |-> A(<<O([lat |-> N(53740), lon |-> N(-1500), height_m |-> N(46),
                               risk_level |-> S("high"),
                               message |-> S("Low bridge 4.6 m")])>>)])

\* the flat shape part_002 .. part_007 and frontend/main.js document
PayloadFlat ==
  O([distance_km |-> N(273), duration_min |-> N(420),
     bridge_risk |-> S("High risk"),
     nearest_bridge_height_m |-> N(46), nearest_bridge_distance_m |-> N(1300),
     geometry |-> LineString(Line2)])

\* a route without any geometry field
PayloadNoGeometry ==
  O([distance_km |-> N(125), duration_min |-> N(900),
     bridge_risk |-> S("Low risk"),
     warnings |-> A(<<O([level |-> S("low"), message |-> S("w2")])>>)])

\* the shape handleRouteRequest (src/main.js 327-438) reads
PayloadOrs ==
  O([route |-> O([routes |-> A(<<O([geometry |-> O([coordinates |-> Line2])])>>)]),
     route_metrics |-> O([distance_km |-> N(273), duration_min |-> N(420)]),
     bridge_summary |-> O([has_conflict |-> B(TRUE), near_height_limit |-> B(FALSE),
                           nearest_bridge |-> O([height_m |-> N(46)]),
                           nearest_distance_m |-> N(1300)])])

\* the shape the v1.1 handler (src/main.js 1-311) reads: geometry as a bare
\* coordinate array, low bridges as bridge_warnings
PayloadV11 ==
  O([distance_km |-> N(273), duration_min |-> N(420),
     geometry |-> Line2,
     bridge_warnings |-> A(<<O([lat |-> N(53740), lon |-> N(-1500), height_m |-> N(46),
                                has_conflict |-> B(TRUE),
                                description |-> S("Low bridge A")])>>),
     steps |-> A(<<O([instruction |-> S("Head towards M62 via A650.")])>>)])

\* a LineString with no coordinates
PayloadEmptyLine ==
  O([distance_km |-> N(50), duration_min |-> N(610),
     bridge_risk |-> S("Low risk"),
     geometry |-> LineString(A(<<>>))])

Payloads == <<PayloadCanonical, PayloadEmpty, PayloadDemoHigh, PayloadFlat,
              PayloadNoGeometry, PayloadOrs, PayloadV11, PayloadEmptyLine>>

PayloadIds == 1..Len(Payloads)

\* Responses: what fetch resolves with.  ctJson is whether the content type
\* is application/json, parses whether response.json() resolves; body is the
\* parsed body, text the raw one.  A 2xx response carries payload p.
DetailText == "Vehicle height must be > 0"

RespOk(p) == [ok |-> TRUE, status |-> 200, ctJson |-> TRUE, parses |-> TRUE, payload |-> p,
              body |-> Payloads[p], text |-> "{...}"]
RespBadJson == [ok |-> TRUE, status |-> 200, ctJson |-> TRUE, parses |-> FALSE, payload |-> 0,
                body |-> U, text |-> "{\"summary\":"]
Resp400 == [ok |-> FALSE, status |-> 400, ctJson |-> TRUE, parses |-> TRUE, payload |-> 0,
            body |-> O([detail |-> S(DetailText)]),
            text |-> "{\"detail\":\"Vehicle height must be > 0\"}"]
Resp422 == [ok |-> FALSE, status |-> 422, ctJson |-> TRUE, parses |-> TRUE, payload |-> 0,
            body |-> O([detail |-> A(<<O([msg |-> S("field required")])>>)]),
            text |-> "{\"detail\":[{\"msg\":\"field required\"}]}"]
Resp500 == [ok |-> FALSE, status |-> 500, ctJson |-> FALSE, parses |-> FALSE, payload |-> 0,
            body |-> U, text |-> "Internal Server Error"]

Responses == {RespOk(p) : p \in PayloadIds} \cup {RespBadJson, Resp400, Resp422, Resp500}

\* f(r.v) unless r threw
Then(r, F(_)) == IF r.ex THEN r ELSE F(r.v)

\* What a submit handler returns up to its first await: the page, which
\* return it took, the POST body when it sent one, the submit control.
Rejected(v, why) == [v |-> v, outcome |-> why, post |-> FALSE, body |-> U, btn |-> FALSE]
Sent(v, start, end, h, disabled) ==
  [v |-> v, outcome |-> "sent", post |-> TRUE,
   body |-> [start |-> Join(start), end |-> Join(end), vehicle_height_m |-> h],
   btn |-> disabled]

\* fetch(url, {method: "POST", headers: {"Content-Type": "application/json"},
\* body: JSON.stringify(payload)}): the request a handler's one fetch issues
Request(id, payload) ==
  [id |-> id, method |-> "POST", contentType |-> "application/json", json |-> TRUE,
   body |-> payload, pc |-> "fetch"]

\* What the rest of a handler returns once its request is settled.
Done(v, how, disabled) == [v |-> v, outcome |-> how, btn |-> disabled]

Fixed1(x) == IF x.t = "nan" THEN "NaN" ELSE toFixed1(x.n)
Fixed2(x) == IF x.t = "nan" THEN "NaN" ELSE toFixed2(x.n)
Fixed0(x) == IF x.t = "nan" THEN "NaN" ELSE toFixed0(x.n)

\* x != null and x.toFixed is not a function
NoToFixed(x) == ~Nullish(x) /\ ~IsNumber(x)


\* a statement that throws when bad holds and leaves the page w otherwise
Try(bad, v, w) == IF bad THEN Throw(v) ELSE Ok(w)

\* the page w, with the exception a statement raised when bad holds
Raise(bad, w) == [v |-> w, ex |-> bad]

\* the elements of q a forEach handles before its body throws on one
Before(q, Bad(_)) == SubSeq(q, 1, FirstBad(q, Bad) - 1)

\* a forEach over q throws
Throws(q, Bad(_)) == FirstBad(q, Bad) <= Len(q)

\* q.map(F)
Map(q, F(_)) == [i \in 1..Len(q) |-> F(q[i])]

\* the end of a handler whose rendering left r: its catch block or its
\* last statements
Finish(r, Catch(_), Rest(_)) ==
  IF r.ex THEN Done(Catch(r.v), "render", FALSE) ELSE Done(Rest(r.v), "ok", FALSE)

(***************************************************************************)
(* Variant "m1": src/main.js 1-311                                         *)
(***************************************************************************)
\* data.bridge_warnings || data.warnings || []
warnings_m1(data) ==
  OrElse(Get(data, "bridge_warnings"), OrElse(Get(data, "warnings"), A(<<>>)))

hasConflict_m1(w) == Truthy(OrElse(Get(w, "has_conflict"), Get(w, "conflict")))

\* lines 45-49
distanceKm_m1(data) ==
  Coalesce(Get(data, "distance_km"),
   Coalesce(OptGet(Get(data, "summary"), "distance_km"),
    Coalesce(OptGet(Get(data, "summary"), "distance"), Null)))

\* lines 50-54
durationMin_m1(data) ==
  Coalesce(Get(data, "duration_min"),
   Coalesce(OptGet(Get(data, "summary"), "duration_min"),
    Coalesce(OptGet(Get(data, "summary"), "duration"), Null)))

\* lines 62-77
setRisk_m1(v, warnings) ==
  IF ~Truthy(LengthOf(warnings))
    THEN Ok([v EXCEPT !.riskText = "No low-bridge conflicts detected",
                      !.badgeText = "Low risk",
                      !.badgeClass = "ws-badge ws-badge--ok"])
  ELSE IF ~IsArray(warnings) \/ \E i \in 1..Len(warnings.a) : Nullish(warnings.a[i])
    THEN Throw(v)
  ELSE IF SelectSeq(warnings.a, hasConflict_m1) # <<>>
    THEN Ok([v EXCEPT !.riskText = IntStr(Len(SelectSeq(warnings.a, hasConflict_m1)))
                                     \o " conflict(s) with vehicle height",
                      !.badgeText = "Route risk",
                      !.badgeClass = "ws-badge ws-badge--danger"])
  ELSE Ok([v EXCEPT !.riskText = IntStr(Len(warnings.a)) \o " nearby low bridge(s)",
                    !.badgeText = "Near limit",
                    !.badgeClass = "ws-badge ws-badge--warn"])

\* lines 82-85: the text for a nearest bridge of height h at distance d
nearestText_m1(h, d) ==
  IF Nullish(h) /\ Nullish(d) THEN "Shown on map"
  ELSE IF Nullish(d) THEN Fixed2(h) \o " m"
  ELSE IF Nullish(h) THEN Fixed0(d) \o " m away"
  ELSE Fixed2(h) \o " m | " \o Fixed0(d) \o " m away"

\* lines 79-88
setNearest_m1(v, nearest, warnings) ==
  IF Truthy(nearest)
    THEN Try(NoToFixed(Coalesce(Get(nearest, "height_m"), Coalesce(Get(nearest, "height"), Null)))
               \/ NoToFixed(Coalesce(Get(nearest, "distance_m"),
                                     Coalesce(Get(nearest, "distance"), Null))),
             v,
             [v EXCEPT !.nearest =
                nearestText_m1(Coalesce(Get(nearest, "height_m"),
                                        Coalesce(Get(nearest, "height"), Null)),
                               Coalesce(Get(nearest, "distance_m"),
                                        Coalesce(Get(nearest, "distance"), Null)))])
    ELSE Ok([v EXCEPT !.nearest = IF Truthy(LengthOf(warnings)) THEN "Shown on map"
                                  ELSE "None on route"])

\* lines 34-89
updateSummary_m1(v, data) ==
  Then(Then(Then(
    Try(NoToFixed(distanceKm_m1(data)), [v EXCEPT !.cardHidden = FALSE],
        [v EXCEPT !.cardHidden = FALSE,
                  !.distance = IF Nullish(distanceKm_m1(data)) THEN "--"
                               ELSE Fixed1(distanceKm_m1(data)) \o " km"]),
    LAMBDA w : Try(NoToFixed(durationMin_m1(data)), w,
                   [w EXCEPT !.duration = IF Nullish(durationMin_m1(data)) THEN "--"
                                          ELSE Fixed1(durationMin_m1(data)) \o " min"])),
    LAMBDA w : setRisk_m1(w, warnings_m1(data))),
    LAMBDA w : setNearest_m1(w, OrElse(Get(data, "nearest_bridge"),
                                       OrElse(Get(data, "nearestBridge"), Null)),
                             warnings_m1(data)))

\* lines 108-114: the text of one <li> of the warnings list
warningText_m1(w) ==
  JsString(OrElse(Get(w, "description"), S("Low bridge")))
    \o (IF Nullish(Coalesce(Get(w, "height_m"), Get(w, "height"))) THEN ""
        ELSE " | " \o Fixed2(Coalesce(Get(w, "height_m"), Get(w, "height"))) \o " m")
    \o (IF Nullish(Coalesce(Get(w, "distance_m"), Get(w, "distance"))) THEN ""
        ELSE " | " \o Fixed0(Coalesce(Get(w, "distance_m"), Get(w, "distance")))
               \o " m from route")

warningThrows_m1(w) ==
  \/ Nullish(w)
  \/ NoToFixed(Coalesce(Get(w, "height_m"), Get(w, "height")))
  \/ NoToFixed(Coalesce(Get(w, "distance_m"), Get(w, "distance")))

\* lines 92-117: forEach appends the items before the first that throws
updateWarnings_m1(v, data) ==
  IF ~Truthy(LengthOf(warnings_m1(data)))
    THEN Ok([v EXCEPT !.warnings = <<>>, !.warningsHidden = TRUE])
  ELSE IF ~IsArray(warnings_m1(data))
    THEN Throw([v EXCEPT !.warnings = <<>>, !.warningsHidden = FALSE])
  ELSE Raise(Throws(warnings_m1(data).a, warningThrows_m1),
             [v EXCEPT !.warningsHidden = FALSE,
                       !.warnings = Map(Before(warnings_m1(data).a, warningThrows_m1),
                                        warningText_m1)])

\* line 134: s.instruction || s.text || s
stepText_m1(s) == JsString(OrElse(Get(s, "instruction"), OrElse(Get(s, "text"), s)))

\* lines 122-123
steps_m1(data) == OrElse(Get(data, "steps"), OrElse(Get(data, "turn_by_turn"), A(<<>>)))

\* lines 120-137
updateSteps_m1(v, data) ==
  IF ~Truthy(LengthOf(steps_m1(data))) THEN Ok([v EXCEPT !.stepsHidden = TRUE])
  ELSE IF ~IsArray(steps_m1(data)) THEN Throw([v EXCEPT !.stepsHidden = FALSE, !.steps = <<>>])
  ELSE Raise(Throws(steps_m1(data).a, Nullish),
             [v EXCEPT !.stepsHidden = FALSE,
                       !.steps = Map(Before(steps_m1(data).a, Nullish), stepText_m1)])

\* lines 27-31: coords.map((c) => [c[1], c[0]])
coordsToLatLngs(coords) == IF ~IsArray(coords) THEN <<>> ELSE Map(coords.a, LatLng)

\* coords.map((c) => [c[1], c[0]]) throws on an element that is null
HasNullPoint(coords) == \E i \in 1..Len(coords.a) : Nullish(coords.a[i])

\* lines 197-199: a warning with both coordinates gets a marker
markerDrawn_m1(w) ==
  ~Nullish(Coalesce(Get(w, "lat"), Get(w, "latitude")))
    /\ ~Nullish(Coalesce(Get(w, "lon"), Get(w, "longitude")))

markerThrows_m1(w) ==
  \/ Nullish(w)
  \/ /\ markerDrawn_m1(w)
     /\ \/ BadLatLng(Coalesce(Get(w, "lat"), Get(w, "latitude")),
                     Coalesce(Get(w, "lon"), Get(w, "longitude")))
        \/ NoToFixed(Coalesce(Get(w, "height_m"), Get(w, "height")))

\* lines 195-215
marker_m1(w) ==
  [at |-> <<Coalesce(Get(w, "lat"), Get(w, "latitude")),
            Coalesce(Get(w, "lon"), Get(w, "longitude"))>>,
   color |-> IF hasConflict_m1(w) THEN "#ff5b5b" ELSE "#ffb347",
   popup |-> JsString(OrElse(Get(w, "description"), S("Low bridge")))
               \o (IF Nullish(Coalesce(Get(w, "height_m"), Get(w, "height"))) THEN ""
                   ELSE " Height: " \o Fixed2(Coalesce(Get(w, "height_m"), Get(w, "height")))
                          \o " m")
               \o (IF hasConflict_m1(w) THEN " Conflict with vehicle height" ELSE "")]

\* lines 144-153: remove the layers of the previous response
clearLayers_m1(m) == NoMap

\* lines 156-161
mainCoordsRaw_m1(data) ==
  OrElse(OptGet(Get(data, "main_route"), "geometry"),
   OrElse(Get(data, "main_geometry"),
    OrElse(Get(data, "geometry"),
     OrElse(Get(data, "main_route"), Null))))

\* lines 176-180
altCoordsRaw_m1(data) ==
  OrElse(OptGet(Get(data, "alt_route"), "geometry"),
   OrElse(Get(data, "alt_geometry"),
    OrElse(Get(data, "alt_route"), Null)))

\* lines 168-220: main line, alternative line, bridge markers, fitBounds
\* (which throws on the bounds of an empty polyline)
drawLayers_m1(v, data) ==
  Then(Then(Then(
    Try(HasNullPoint(mainCoordsRaw_m1(data)), v,
        [v EXCEPT !.map.main = @ \o <<coordsToLatLngs(mainCoordsRaw_m1(data))>>]),
    LAMBDA w : IF ~IsArray(altCoordsRaw_m1(data)) THEN Ok(w)
               ELSE Try(HasNullPoint(altCoordsRaw_m1(data)), w,
                        [w EXCEPT !.map.alt = @ \o <<coordsToLatLngs(altCoordsRaw_m1(data))>>])),
    LAMBDA w : IF ~IsArray(warnings_m1(data)) THEN Throw(w)
               ELSE Raise(Throws(warnings_m1(data).a, markerThrows_m1),
                          [w EXCEPT !.map.bridges =
                             @ \o Map(SelectSeq(Before(warnings_m1(data).a, markerThrows_m1),
                                           markerDrawn_m1), marker_m1)])),
    LAMBDA w : Try(mainCoordsRaw_m1(data).a = <<>>, w,
                   [w EXCEPT !.fit = PointsOf(coordsToLatLngs(mainCoordsRaw_m1(data)))]))

\* lines 140-221
updateMap_m1(v, data) ==
  IF ~IsArray(mainCoordsRaw_m1(data))
    THEN Ok([v EXCEPT !.mapEmpty = FALSE, !.map = clearLayers_m1(v.map)])
    ELSE drawLayers_m1([v EXCEPT !.mapEmpty = FALSE, !.map = clearLayers_m1(v.map)], data)

\* lines 291-294
render_m1(v, data) ==
  Then(Then(Then(
    updateSummary_m1(v, data),
    LAMBDA w : updateWarnings_m1(w, data)),
    LAMBDA w : updateSteps_m1(w, data)),
    LAMBDA w : updateMap_m1(w, data))

\* lines 229-263: the handler up to its fetch
submit_m1(v, in) ==
  IF Trim(in.start) = <<>> \/ Trim(in.end) = <<>> \/ Trim(in.height) = <<>>
    THEN Rejected([v EXCEPT !.status = "Please enter start, destination and vehicle height."],
                  "missingField")
  ELSE IF isNaN(parseFloat(Trim(in.height)))
    THEN Rejected([v EXCEPT !.status = "Vehicle height must be a valid number (metres)."],
                  "invalidHeight")
  ELSE Sent([v EXCEPT !.status = "Requesting safe HGV route from RouteSafe-AI..."],
            Trim(in.start), Trim(in.end), parseFloat(Trim(in.height)), TRUE)

\* lines 297-300
catch_m1(v) == [v EXCEPT !.status = "Error generating route. Check the API is up and try again."]

\* lines 269-280: the detail a non-2xx response contributes to the status line
detail_m1(resp, d) ==
  IF ~resp.ctJson THEN "Unknown error"
  ELSE IF IsString(d) THEN d.s
  ELSE IF IsArray(d) /\ Truthy(OptGet(Elem(d, 1), "msg")) THEN JsString(Get(Elem(d, 1), "msg"))
  ELSE "Unknown error"

\* lines 265-303 once fetch has resolved
settle_m1(v, resp) ==
  IF ~resp.ok
    THEN IF resp.ctJson /\ (~resp.parses \/ Nullish(resp.body))
           THEN Done(catch_m1(v), "http", FALSE)
           ELSE Done([v EXCEPT !.status = "Could not generate route: RouteSafe-AI error "
                                 \o IntStr(resp.status) \o ": "
                                 \o detail_m1(resp, Get(resp.body, "detail")) \o "."],
                     "http", FALSE)
  ELSE IF resp.ctJson /\ ~resp.parses THEN Done(catch_m1(v), "parse", FALSE)
  ELSE IF ~resp.ctJson \/ ~Truthy(resp.body)
    THEN Done([v EXCEPT !.status = "No data returned from RouteSafe-AI."], "parse", FALSE)
  ELSE Finish(render_m1(v, resp.body), catch_m1,
              LAMBDA w : [w EXCEPT !.status = "Safe route generated."])

(***************************************************************************)
(* Variant "m2": src/main.js 312-438                                       *)
(***************************************************************************)
\* line 373: data.route.routes[0].geometry.coordinates throws when a step of
\* the path is null or undefined
NoRoutePath(data) ==
  \/ Nullish(Get(data, "route"))
  \/ Nullish(Get(Get(data, "route"), "routes"))
  \/ ~IsArray(Get(Get(data, "route"), "routes"))
  \/ Nullish(Elem(Get(Get(data, "route"), "routes"), 1))
  \/ Nullish(Get(Elem(Get(Get(data, "route"), "routes"), 1), "geometry"))

routeCoords_m2(data) ==
  Get(Get(Elem(Get(Get(data, "route"), "routes"), 1), "geometry"), "coordinates")

\* lines 372-382: the old line is removed once the new coordinates are
\* mapped; fitBounds throws on the bounds of an empty polyline
drawRouteOnMap_m2(v, data) ==
  IF NoRoutePath(data) \/ ~IsArray(routeCoords_m2(data)) THEN Throw(v)
  ELSE IF HasNullPoint(routeCoords_m2(data)) THEN Throw(v)
  ELSE Try(routeCoords_m2(data).a = <<>>, [v EXCEPT !.map.main = << <<>> >>],
           [v EXCEPT !.map.main = <<coordsToLatLngs(routeCoords_m2(data))>>,
                     !.fit = PointsOf(coordsToLatLngs(routeCoords_m2(data)))])

\* (x || 0)
OrZero(x) == IF Truthy(x) THEN x ELSE N(0)

\* lines 403-409
setNearest_m2(v, nb, nd) ==
  IF Truthy(nb)
    THEN Try(~IsNumber(nd), v,
             [v EXCEPT !.nearest = JsString(Get(nb, "height_m")) \o "m ("
                                     \o Fixed0(nd) \o "m away)"])
    ELSE Ok([v EXCEPT !.nearest = "No bridges near route"])

\* lines 386-410
populateSummary_m2(v, data) ==
  IF Nullish(Get(data, "route_metrics")) THEN Throw([v EXCEPT !.cardHidden = FALSE])
  ELSE Then(Then(Then(
         Try(~IsNumber(OrZero(Get(Get(data, "route_metrics"), "distance_km"))),
             [v EXCEPT !.cardHidden = FALSE],
             [v EXCEPT !.cardHidden = FALSE,
                       !.distance = Fixed2(OrZero(Get(Get(data, "route_metrics"),
                                                      "distance_km"))) \o " km"]),
         LAMBDA w : Try(~IsNumber(OrZero(Get(Get(data, "route_metrics"), "duration_min"))), w,
                        [w EXCEPT !.duration = Fixed0(OrZero(Get(Get(data, "route_metrics"),
                                                                 "duration_min"))) \o " min"])),
         LAMBDA w : Try(Nullish(Get(data, "bridge_summary")), w,
                        [w EXCEPT !.riskText =
                           IF Truthy(Get(Get(data, "bridge_summary"), "has_conflict"))
                             THEN "HIGH"
                           ELSE IF Truthy(Get(Get(data, "bridge_summary"), "near_height_limit"))
                             THEN "MEDIUM"
                           ELSE "LOW"])),
         LAMBDA w : setNearest_m2(w, Get(Get(data, "bridge_summary"), "nearest_bridge"),
                                  Get(Get(data, "bridge_summary"), "nearest_distance_m")))

\* lines 428-437
warningItems_m2(bs) ==
  (IF Truthy(Get(bs, "has_conflict"))
     THEN <<"(!) Low bridge on route - NOT SAFE at current height">> ELSE <<>>)
  \o (IF Truthy(Get(bs, "near_height_limit"))
        THEN <<"(!) Bridge height close to vehicle limit - use caution">> ELSE <<>>)

\* lines 414-438
populateWarnings_m2(v, data) ==
  Try(Nullish(Get(data, "bridge_summary")), [v EXCEPT !.warnings = <<>>],
      [v EXCEPT !.warnings = warningItems_m2(Get(data, "bridge_summary")),
                !.warningsHidden = warningItems_m2(Get(data, "bridge_summary")) = <<>>])

\* lines 361-363
render_m2(v, data) ==
  Then(Then(
    drawRouteOnMap_m2(v, data),
    LAMBDA w : populateSummary_m2(w, data)),
    LAMBDA w : populateWarnings_m2(w, data))

\* lines 327-350: the handler up to its fetch
submit_m2(v, in) ==
  Sent([v EXCEPT !.status = "Requesting route..."],
       Trim(in.start), Trim(in.end), parseFloat(in.height), FALSE)

\* lines 365-367
catch_m2(v, err) == [v EXCEPT !.status = "Network error: " \o err]

\* lines 352-367 once fetch has resolved
settle_m2(v, resp) ==
  IF ~resp.parses
    THEN Done(catch_m2(v, "SyntaxError: Unexpected token"),
              IF resp.ok THEN "parse" ELSE "http", FALSE)
  ELSE IF ~resp.ok
    THEN IF Nullish(resp.body) THEN Done(catch_m2(v, "TypeError"), "http", FALSE)
         ELSE Done([v EXCEPT !.status = "Error: " \o JsString(Get(resp.body, "detail"))],
                   "http", FALSE)
  ELSE IF Nullish(resp.body)
    THEN Done(catch_m2([v EXCEPT !.status = "Route loaded."], "TypeError"), "render", FALSE)
  ELSE Finish(render_m2([v EXCEPT !.status = "Route loaded."], resp.body),
              LAMBDA w : catch_m2(w, "TypeError"), LAMBDA w : w)

(***************************************************************************)
(* Variant "p1a": src/unnamed/part_001 1-439                               *)
(***************************************************************************)
\* x.length > 0
HasItems(x) == LengthOf(x).t = "num" /\ LengthOf(x).n > 0

\* (x || dflt).toLowerCase() throws when x is truthy and not a string
LowerThrows(x) == Truthy(x) /\ ~IsString(x)
Lower(x, dflt) == IF Truthy(x) THEN toLowerCase(x.s) ELSE dflt

\* lines 208-213
getBadgeClass_p1(level) ==
  CASE level = "high" -> "ws-badge--danger"
    [] level = "medium" -> "ws-badge--warn"
    [] level = "low" -> "ws-badge--ok"
    [] OTHER -> "ws-badge--muted"

\* lines 316-324
geojsonCoordsToLatLngs(coords) ==
  IF ~IsArray(coords) THEN <<>>
  ELSE Map(SelectSeq(coords.a, LAMBDA c : IsArray(c) /\ Len(c.a) >= 2), LatLng)

IsLineString(g) == Truthy(g) /\ Get(g, "type") = S("LineString")

\* lines 328-340
extractMainGeometry(data) ==
  IF IsLineString(Get(data, "geometry")) THEN Get(data, "geometry")
  ELSE IF IsLineString(Get(data, "route_geometry")) THEN Get(data, "route_geometry")
  ELSE IF IsLineString(Get(data, "main_geometry")) THEN Get(data, "main_geometry")
  ELSE Null

\* lines 342-350
extractAltGeometry(data) ==
  IF IsLineString(Get(data, "alt_geometry")) THEN Get(data, "alt_geometry")
  ELSE IF IsLineString(Get(data, "alternative_geometry")) THEN Get(data, "alternative_geometry")
  ELSE Null

\* lines 352-357
extractBridgeMarkers(data) ==
  IF IsArray(Get(data, "bridge_markers")) THEN Get(data, "bridge_markers")
  ELSE IF IsArray(Get(data, "bridges")) THEN Get(data, "bridges")
  ELSE IF IsArray(Get(data, "bridge_warnings")) THEN Get(data, "bridge_warnings")
  ELSE A(<<>>)

\* lines 282-284
markerLat_p1(b) == Coalesce(Get(b, "lat"), Get(b, "latitude"))
markerLon_p1(b) == Coalesce(Get(b, "lon"), Coalesce(Get(b, "lng"), Get(b, "longitude")))
markerDrawn_p1(b) == ~Nullish(markerLat_p1(b)) /\ ~Nullish(markerLon_p1(b))

markerThrows_p1(b) ==
  \/ Nullish(b)
  \/ /\ markerDrawn_p1(b)
     /\ \/ LowerThrows(OrElse(Get(b, "risk_level"), Get(b, "level")))
        \/ BadLatLng(markerLat_p1(b), markerLon_p1(b))
        \/ /\ ~Truthy(OrElse(Get(b, "message"), Get(b, "text")))
           /\ Truthy(Get(b, "height_m")) /\ ~IsNumber(Get(b, "height_m"))

\* lines 282-304
marker_p1(b) ==
  [at |-> <<markerLat_p1(b), markerLon_p1(b)>>,
   color |-> CASE Lower(OrElse(Get(b, "risk_level"), Get(b, "level")), "low") = "high"
                    -> "#f97316"
               [] Lower(OrElse(Get(b, "risk_level"), Get(b, "level")), "low") = "medium"
                    -> "#eab308"
               [] OTHER -> "#22c55e",
   popup |-> JsString(OrElse(Get(b, "message"), OrElse(Get(b, "text"),
               S("Bridge " \o (IF Truthy(Get(b, "height_m"))
                                 THEN Fixed2(Get(b, "height_m")) \o " m" ELSE "")))))]

\* lines 241-252: remove the layers of the previous response
clearLayers_p1(m) == NoMap

\* lines 256-265 / 267-277: the polyline of a geometry, if it has points
lineOf_p1(geom) ==
  IF IsLineString(geom) /\ geojsonCoordsToLatLngs(Get(geom, "coordinates")) # <<>>
    THEN <<geojsonCoordsToLatLngs(Get(geom, "coordinates"))>>
    ELSE <<>>

\* the points of a sequence of polylines
LinePoints(lines) == UNION {PointsOf(lines[i]) : i \in 1..Len(lines)}

\* lines 237-314: the bridge layer reaches the map only after its loop; the
\* bounds of a group of empty layers are not valid
drawRouteOnMap_p1(v, mainGeom, altGeom, bridgeMarkers) ==
  Then(
    IF ~HasItems(bridgeMarkers)
      THEN Ok([v EXCEPT !.map = [clearLayers_p1(v.map) EXCEPT !.main = @ \o lineOf_p1(mainGeom),
                                                              !.alt = @ \o lineOf_p1(altGeom)]])
      ELSE Try(Throws(bridgeMarkers.a, markerThrows_p1),
               [v EXCEPT !.map = [clearLayers_p1(v.map) EXCEPT !.main = @ \o lineOf_p1(mainGeom),
                                                               !.alt = @ \o lineOf_p1(altGeom)]],
               [v EXCEPT !.map = [clearLayers_p1(v.map) EXCEPT
                                    !.main = @ \o lineOf_p1(mainGeom),
                                    !.alt = @ \o lineOf_p1(altGeom),
                                    !.bridges = @ \o Map(SelectSeq(bridgeMarkers.a,
                                                                   markerDrawn_p1),
                                                         marker_p1)]]),
    LAMBDA w :
      IF w.map.main = <<>> /\ w.map.alt = <<>> /\ ~HasItems(bridgeMarkers) THEN Ok(w)
      ELSE Try(w.map.main = <<>> /\ w.map.alt = <<>> /\ w.map.bridges = <<>>, w,
               [w EXCEPT !.fit = LinePoints(w.map.main) \cup LinePoints(w.map.alt)
                                   \cup {w.map.bridges[i].at : i \in 1..Len(w.map.bridges)}]))

warningThrows_p1(w) == Nullish(w) \/ LowerThrows(Get(w, "level"))

\* line 169
warningText_p1(w) ==
  JsString(OrElse(Get(w, "message"), OrElse(Get(w, "text"), S(JSONstringify(w)))))

\* lines 182-185
stepText_p1(s, idx) ==
  JsString(OrElse(Get(s, "instruction"), OrElse(Get(s, "text"),
     S("Step " \o IntStr(idx) \o ": " \o JSONstringify(s) \o " "))))

\* lines 119-121
setDistance_p1(v, distanceKm) ==
  Try(Truthy(distanceKm) /\ ~IsNumber(distanceKm), v,
      [v EXCEPT !.distance = IF Truthy(distanceKm) THEN Fixed1(distanceKm) \o " km" ELSE "--"])

\* `${Math.round(x)} min`
RoundedMin(x) ==
  (IF x.t = "num" THEN IntStrSigned(MathRound(x.n)) ELSE "NaN") \o " min"

\* lines 129-138
setNearest_p1(v, nh, nd) ==
  IF Nullish(nh) THEN Ok([v EXCEPT !.nearest = "--"])
  ELSE Try(~IsNumber(nh) \/ NoToFixed(nd), v,
           [v EXCEPT !.nearest = IF Nullish(nd) THEN Fixed2(nh) \o " m"
                                 ELSE Fixed2(nh) \o " m " \o Fixed0(nd) \o " m away"])

\* lines 141-151
setBadge_p1(v, lv) ==
  Try(LowerThrows(lv), v,
      [v EXCEPT !.badgeText = CASE Lower(lv, "unknown") = "high" -> "High bridge risk"
                                [] Lower(lv, "unknown") = "medium" -> "Medium bridge risk"
                                [] Lower(lv, "unknown") = "low" -> "Low bridge risk"
                                [] OTHER -> "No data",
                !.badgeClass = "ws-badge " \o getBadgeClass_p1(Lower(lv, "unknown"))])

\* lines 154-174: forEach appends the items before the first that throws
setWarnings_p1(v, warnings) ==
  IF ~HasItems(warnings) THEN Ok([v EXCEPT !.warnings = <<>>, !.warningsHidden = TRUE])
  ELSE IF ~IsArray(warnings) THEN Throw([v EXCEPT !.warnings = <<>>, !.warningsHidden = FALSE])
  ELSE Raise(Throws(warnings.a, warningThrows_p1),
             [v EXCEPT !.warningsHidden = FALSE,
                       !.warnings = Map(Before(warnings.a, warningThrows_p1), warningText_p1)])

\* lines 177-191
setSteps_p1(v, steps) ==
  IF ~HasItems(steps) THEN Ok([v EXCEPT !.steps = <<>>, !.stepsHidden = TRUE])
  ELSE IF ~IsArray(steps) THEN Throw([v EXCEPT !.steps = <<>>, !.stepsHidden = FALSE])
  ELSE Raise(Throws(steps.a, Nullish),
             [v EXCEPT !.stepsHidden = FALSE,
                       !.steps = [i \in 1..Len(Before(steps.a, Nullish)) |->
                                    stepText_p1(steps.a[i], i)]])

\* line 114
risk_p1(data) ==
  OrElse(Get(data, "bridge_risk"), OrElse(Get(data, "bridge_status"), O([k \in {} |-> U])))

\* lines 108-206
handleRouteResponse(v, data) ==
  IF ~Truthy(data) THEN Ok(v)
  ELSE Then(Then(Then(Then(Then(Then(Then(
    setDistance_p1(v, Coalesce(Get(data, "distance_km"),
                               Coalesce(OptGet(Get(data, "summary"), "distance_km"), Null))),
    LAMBDA w : Ok([w EXCEPT
      !.duration = IF Truthy(Coalesce(Get(data, "duration_min"),
                                 Coalesce(OptGet(Get(data, "summary"), "duration_min"), Null)))
                     THEN RoundedMin(Coalesce(Get(data, "duration_min"),
                                       OptGet(Get(data, "summary"), "duration_min")))
                     ELSE "--",
      !.riskText = JsString(OrElse(Get(risk_p1(data), "status_text"), S("No bridge data")))])),
    LAMBDA w : setNearest_p1(w, Get(risk_p1(data), "nearest_bridge_height_m"),
                             Get(risk_p1(data), "nearest_bridge_distance_m"))),
    LAMBDA w : setBadge_p1(w, OrElse(Get(risk_p1(data), "level"),
                                     Get(risk_p1(data), "risk_level")))),
    LAMBDA w : setWarnings_p1(w, OrElse(Get(data, "warnings"),
                                        OrElse(Get(data, "bridge_warnings"), A(<<>>))))),
    LAMBDA w : setSteps_p1(w, OrElse(Get(data, "steps"),
                                     OrElse(Get(data, "route_steps"), A(<<>>))))),
    LAMBDA w : drawRouteOnMap_p1([w EXCEPT !.cardHidden = FALSE], extractMainGeometry(data),
                                 extractAltGeometry(data), extractBridgeMarkers(data))),
    LAMBDA w : Ok([w EXCEPT !.mapEmpty = ~Truthy(extractMainGeometry(data))]))

\* lines 361-439; vehicleHeightM in tenths of a metre
buildDemoRoute_p1(start, end, vehicleHeightM) ==
  LET highRisk == vehicleHeightM.t = "num" /\ vehicleHeightM.n > 48
      demoLine == LineString(A(<<Pt(-1602, 53758), Pt(-1550, 53750), Pt(-1480, 53740),
                                 Pt(-1350, 53730), Pt(-2250, 53480)>>))
      demoAltLine == IF highRisk
                       THEN LineString(A(<<Pt(-1602, 53758), Pt(-1620, 53720), Pt(-1700, 53680),
                                           Pt(-1900, 53580), Pt(-2250, 53480)>>))
                       ELSE Null
      bridgeMarkers == IF highRisk
                         THEN A(<<O([lat |-> N(53740), lon |-> N(-1500), height_m |-> N(46),
                                     risk_level |-> S("high"),
                                     message |-> S("Low bridge 4.6 m - main route diverted.")])>>)
                         ELSE A(<<>>)
  IN  O([summary |-> O([distance_km |-> N(273), duration_min |-> N(420)]),
         distance_km |-> N(273),
         duration_min |-> N(420),
         bridge_risk |->
           O([level |-> S(IF highRisk THEN "high" ELSE "low"),
              status_text |-> S(IF highRisk
                                  THEN "Low bridge on direct path; alternative offered."
                                  ELSE "No conflicts detected for this height."),
              nearest_bridge_height_m |-> N(IF highRisk THEN 46 ELSE 52),
              nearest_bridge_distance_m |-> N(1300)]),
         warnings |->
           IF highRisk
             THEN A(<<O([level |-> S("high"),
                         message |-> S("Low bridge (4.6 m) detected near Morley; main route diverted.")])>>)
             ELSE A(<<>>),
         steps |-> A(<<O([instruction |-> S("Start at " \o start)]),
                       O([instruction |-> S("Head towards M62 via A650.")]),
                       O([instruction |-> S(IF highRisk
                            THEN "Follow HGV diversion avoiding low bridge near Morley."
                            ELSE "Follow primary route through Morley.")]),
                       O([instruction |-> S("Arrive at " \o end \o ".")])>>),
         geometry |-> demoLine,
         alt_geometry |-> demoAltLine,
         bridge_markers |-> bridgeMarkers])

\* lines 31-70: the handler up to its fetch
submit_p1a(v, in) ==
  IF Trim(in.start) = <<>> \/ Trim(in.end) = <<>> \/ Trim(in.height) = <<>>
    THEN Rejected([v EXCEPT !.status = "Please fill in all fields."], "missingField")
  ELSE IF isNaN(parseFloat(Trim(in.height))) \/ parseFloat(Trim(in.height)).n <= 0
    THEN Rejected([v EXCEPT !.status = "Vehicle height must be a positive number in metres."],
                  "invalidHeight")
  ELSE Sent([v EXCEPT !.status = "Calculating HGV-safe route..."],
            Trim(in.start), Trim(in.end), parseFloat(Trim(in.height)), TRUE)

\* lines 79-90: the demo route is rendered in place of the response
catch_p1a(v, body) ==
  Finish(handleRouteResponse(v, buildDemoRoute_p1(body.start, body.end, body.vehicle_height_m)),
         LAMBDA w : w,
         LAMBDA w : [w EXCEPT !.status =
                       "RouteSafe engine not reachable; showing demo route layout only."]).v

\* lines 72-90 once fetch has resolved
settle_p1a(v, resp, body) ==
  IF ~resp.ok THEN Done(catch_p1a(v, body), "http", FALSE)
  ELSE IF ~resp.parses THEN Done(catch_p1a(v, body), "parse", FALSE)
  ELSE Finish(handleRouteResponse(v, resp.body), LAMBDA w : catch_p1a(w, body),
              LAMBDA w : [w EXCEPT !.status = "Route generated successfully."])

(***************************************************************************)
(* Variant "p1b": src/unnamed/part_001 440-653                             *)
(***************************************************************************)
\* coordinates.map(([lon, lat]) => [lat, lon]): destructuring throws on an
\* element that is not iterable
mapThrows_p1b(coords) ==
  ~IsArray(coords) \/ \E i \in 1..Len(coords.a) : ~IsArray(coords.a[i])

\* setLatLngs(latlngs): a polyline without points draws nothing
line_p1b(latlngs) == IF latlngs = <<>> THEN <<>> ELSE <<latlngs>>

markerThrows_p1b(b) ==
  \/ Nullish(b)
  \/ BadLatLng(Get(b, "lat"), Get(b, "lon"))
  \/ ~Truthy(Get(b, "message")) /\ Truthy(Get(b, "height_m")) /\ ~IsNumber(Get(b, "height_m"))

\* lines 552-570
marker_p1b(b) ==
  [at |-> <<Get(b, "lat"), Get(b, "lon")>>,
   color |-> IF Get(b, "risk_level") = S("high") THEN "red"
             ELSE IF Get(b, "risk_level") = S("medium") THEN "orange" ELSE "green",
   popup |-> JsString(OrElse(Get(b, "message"),
               S("Bridge " \o (IF Truthy(Get(b, "height_m"))
                                 THEN Fixed2(Get(b, "height_m")) \o " m" ELSE "")
                   \o " (" \o JsString(Get(b, "risk_level")) \o ")")))]

\* a renderer that leaves the layers of the previous response in place
keepLayers_p1b(m) == m

\* lines 529-531: setLatLngs([]) on both polylines, clearLayers on the markers
clearLayers_p1b(m) == NoMap

\* lines 533, 541: the coordinates of a geometry that has some
coordsOf_p1b(g) ==
  IF Truthy(g) /\ Truthy(Get(g, "coordinates")) THEN Get(g, "coordinates") ELSE A(<<>>)

\* lines 584-591
setDistance_p1b(v, distanceKm) ==
  Try(Truthy(distanceKm) /\ ~IsNumber(distanceKm), v,
      [v EXCEPT !.distance = IF Truthy(distanceKm) THEN Fixed1(distanceKm) \o " km" ELSE "--"])

\* lines 586-594
setDuration_p1b(v, durationMin) ==
  Try(Truthy(durationMin) /\ ~IsNumber(durationMin), v,
      [v EXCEPT !.duration = IF Truthy(durationMin) THEN Fixed0(durationMin) \o " min"
                             ELSE "--"])

\* line 596
bridgeRisk_p1b(result) == OrElse(Get(result, "bridge_risk"), O([k \in {} |-> U]))

\* lines 533-640, result being an object: lines, markers, bounds, metrics,
\* warnings, steps
fillPage_p1b(v, result) ==
  Then(Then(Then(Then(Then(Then(Then(Then(
    Try(mapThrows_p1b(coordsOf_p1b(Get(result, "geometry"))), v,
        [v EXCEPT !.map.main = line_p1b(coordsToLatLngs(coordsOf_p1b(Get(result, "geometry"))))]),
    LAMBDA w :
      Try(mapThrows_p1b(coordsOf_p1b(Get(result, "alt_geometry"))), w,
          [w EXCEPT !.map.alt =
             line_p1b(coordsToLatLngs(coordsOf_p1b(Get(result, "alt_geometry"))))])),
    LAMBDA w :
      IF ~IsArray(Get(result, "bridge_markers")) THEN Ok(w)
      ELSE Raise(Throws(Get(result, "bridge_markers").a, markerThrows_p1b),
                 [w EXCEPT !.map.bridges =
                    @ \o Map(Before(Get(result, "bridge_markers").a, markerThrows_p1b),
                        marker_p1b)])),
    LAMBDA w :
      setDistance_p1b(
        IF LinePoints(w.map.main) \cup LinePoints(w.map.alt) # {}
          THEN [w EXCEPT !.fit = LinePoints(w.map.main) \cup LinePoints(w.map.alt)]
          ELSE w,
        Coalesce(OptGet(Get(result, "summary"), "distance_km"),
                 Coalesce(Get(result, "distance_km"), Null)))),
    LAMBDA w :
      setDuration_p1b(w, Coalesce(OptGet(Get(result, "summary"), "duration_min"),
                                  Coalesce(Get(result, "duration_min"), Null)))),
    LAMBDA w :
      Try(NoToFixed(Get(bridgeRisk_p1b(result), "nearest_bridge_height_m")),
          [w EXCEPT !.badgeText = JsString(OrElse(Get(bridgeRisk_p1b(result), "level"),
                                                  S("--"))),
                    !.riskText = JsString(OrElse(Get(bridgeRisk_p1b(result), "status_text"),
                                                 S("No status")))],
          [w EXCEPT !.badgeText = JsString(OrElse(Get(bridgeRisk_p1b(result), "level"),
                                                  S("--"))),
                    !.riskText = JsString(OrElse(Get(bridgeRisk_p1b(result), "status_text"),
                                                 S("No status"))),
                    !.nearest =
                      IF Nullish(Get(bridgeRisk_p1b(result), "nearest_bridge_height_m"))
                        THEN "--"
                        ELSE Fixed2(Get(bridgeRisk_p1b(result), "nearest_bridge_height_m"))
                               \o " m"])),
    LAMBDA w :
      Try(NoToFixed(Get(bridgeRisk_p1b(result), "nearest_bridge_distance_m")), w,
          [w EXCEPT !.nearestDist =
             IF Nullish(Get(bridgeRisk_p1b(result), "nearest_bridge_distance_m")) THEN "--"
             ELSE Fixed0(Get(bridgeRisk_p1b(result), "nearest_bridge_distance_m")) \o " m"])),
    LAMBDA w :
      IF ~HasItems(Get(result, "warnings")) \/ ~IsArray(Get(result, "warnings"))
        THEN Ok([w EXCEPT !.warnings = <<"No additional warnings.">>])
        ELSE Raise(Throws(Get(result, "warnings").a, Nullish),
                   [w EXCEPT !.warnings =
                      Map(Before(Get(result, "warnings").a, Nullish),
                          LAMBDA x : JsString(OrElse(Get(x, "message"), S("Warning"))))])),
    LAMBDA w :
      IF ~HasItems(Get(result, "steps")) \/ ~IsArray(Get(result, "steps"))
        THEN Ok([w EXCEPT !.steps = <<"No turn-by-turn instructions available.">>])
        ELSE Raise(Throws(Get(result, "steps").a, Nullish),
                   [w EXCEPT !.steps =
                      [i \in 1..Len(Before(Get(result, "steps").a, Nullish)) |->
                         IntStr(i) \o ". "
                           \o JsString(Get(Get(result, "steps").a[i], "instruction"))]]))

\* lines 527-640
renderRouteResult(v, result) ==
  IF Nullish(result) THEN Throw([v EXCEPT !.map = clearLayers_p1b(v.map)])
  ELSE fillPage_p1b([v EXCEPT !.map = clearLayers_p1b(v.map)], result)

\* lines 475-507: the handler up to its fetch
submit_p1b(v, in) ==
  IF Trim(in.start) = <<>> \/ Trim(in.end) = <<>>
    THEN Rejected([v EXCEPT !.status = "Please enter start, end and a valid vehicle height."],
                  "missingField")
  ELSE IF isNaN(parseFloat(Trim(in.height))) \/ parseFloat(Trim(in.height)).n <= 0
    THEN Rejected([v EXCEPT !.status = "Please enter start, end and a valid vehicle height."],
                  "invalidHeight")
  ELSE Sent([v EXCEPT !.status = "Requesting safe HGV route..."],
            Trim(in.start), Trim(in.end), parseFloat(Trim(in.height)), FALSE)

\* lines 517-523
catch_p1b(v) ==
  [v EXCEPT !.status = "Error generating route. Check start/end and try again (or engine logs)."]

\* lines 509-523 once fetch has resolved
settle_p1b(v, resp) ==
  IF ~resp.ok THEN Done(catch_p1b(v), "http", FALSE)
  ELSE IF ~resp.parses THEN Done(catch_p1b(v), "parse", FALSE)
  ELSE Finish(renderRouteResult(v, resp.body), catch_p1b,
              LAMBDA w : [w EXCEPT !.status = "Route generated using RouteSafe-AI"])

(***************************************************************************)
(* Variant "p2": src/unnamed/part_002                                      *)
(***************************************************************************)
\* lines 16-46
setBadge_p2(v, risk) ==
  Try(LowerThrows(risk), v,
      [v EXCEPT !.badgeClass = CASE Lower(risk, "") = "low" -> "badge-low"
                                 [] Lower(risk, "") = "medium" -> "badge-medium"
                                 [] Lower(risk, "") = "high" -> "badge-high"
                                 [] OTHER -> "badge-unknown",
                !.badgeText = CASE Lower(risk, "") = "low" -> "Low risk"
                                [] Lower(risk, "") = "medium" -> "Medium risk"
                                [] Lower(risk, "") = "high" -> "HIGH risk"
                                [] OTHER -> "Unknown"])

\* lines 48-62
showLoading_p2(v, isLoading) == IF isLoading THEN [v EXCEPT !.errorShown = FALSE] ELSE v

\* lines 64-69
showError_p2(v, message) ==
  [v EXCEPT !.error = IF message = "" THEN "Something went wrong. Please try again."
                      ELSE message,
            !.errorShown = TRUE]

\* lines 71-75
showResultCard(v, show) == [v EXCEPT !.cardHidden = ~show]

\* lines 139-176: the summary fields in turn, the badge, the geometry dump
\* and the result card
render_p2(v, data) ==
  IF Nullish(data) THEN Throw(v)
  ELSE
  Then(Then(Then(Then(Then(
    Try(NoToFixed(Get(data, "distance_km")), v,
        [v EXCEPT !.distance = IF Nullish(Get(data, "distance_km")) THEN "--"
                               ELSE Fixed1(Get(data, "distance_km")) \o " km"]),
    LAMBDA w :
      Try(NoToFixed(Get(data, "duration_min")), w,
          [w EXCEPT !.duration = IF Nullish(Get(data, "duration_min")) THEN "--"
                                 ELSE Fixed0(Get(data, "duration_min")) \o " min"])),
    LAMBDA w :
      Try(NoToFixed(Get(data, "nearest_bridge_height_m")), w,
          [w EXCEPT !.nearest = IF Nullish(Get(data, "nearest_bridge_height_m")) THEN "--"
                                ELSE Fixed2(Get(data, "nearest_bridge_height_m")) \o " m"])),
    LAMBDA w :
      Try(NoToFixed(Get(data, "nearest_bridge_distance_m")), w,
          [w EXCEPT !.nearestDist =
             IF Nullish(Get(data, "nearest_bridge_distance_m")) THEN "--"
             ELSE Fixed0(Get(data, "nearest_bridge_distance_m")) \o " m"])),
    LAMBDA w : setBadge_p2(w, Get(data, "bridge_risk"))),
    LAMBDA w :
      Ok(showResultCard([w EXCEPT !.geometryDebug =
                           IF Truthy(Get(data, "geometry"))
                             THEN JSONstringify(Get(data, "geometry")) ELSE ""], TRUE)))

\* lines 77-116: the handler up to its fetch
submit_p2(v, in, elementsPresent) ==
  IF ~elementsPresent THEN Rejected(v, "missingElements")
  ELSE IF Trim(in.start) = <<>> \/ Trim(in.end) = <<>>
    THEN Rejected(showError_p2(v, "Please enter both postcodes and a valid vehicle height."),
                  "missingField")
  ELSE IF isNaN(parseFloat(in.height))
    THEN Rejected(showError_p2(v, "Please enter both postcodes and a valid vehicle height."),
                  "invalidHeight")
  ELSE Sent(showResultCard(showLoading_p2(v, TRUE), FALSE),
            Trim(in.start), Trim(in.end), parseFloat(in.height), TRUE)

\* lines 177-182
catch_p2(v) == showError_p2(v, "Network error talking to RouteSafe Navigator API.")

\* lines 118-182 once fetch has resolved
settle_p2(v, resp) ==
  IF ~resp.ok
    THEN Done(showLoading_p2(showError_p2(v, "Route request failed (" \o IntStr(resp.status)
                               \o "). Please check the postcodes and try again."), FALSE),
              "http", FALSE)
  ELSE IF ~resp.parses THEN Done(showLoading_p2(catch_p2(v), FALSE), "parse", FALSE)
  ELSE Finish(render_p2(v, resp.body), LAMBDA w : showLoading_p2(catch_p2(w), FALSE),
              LAMBDA w : showLoading_p2(w, FALSE))

(***************************************************************************)
(* Variant "p3": src/unnamed/part_003                                      *)
(***************************************************************************)
\* lines 23-34
setStatus(v, message) == [v EXCEPT !.status = message]

\* lines 36-42
setError_p3(v, message) == [v EXCEPT !.error = message, !.errorShown = message # ""]

\* lines 45-86: distance, time, risk pill, nearest bridge
updateSummary_p3(v, data) ==
  IF Nullish(data) THEN Throw(v)
  ELSE
  Then(
    Try(NoToFixed(Get(data, "distance_km")), v,
        [v EXCEPT !.distance = IF Nullish(Get(data, "distance_km")) THEN "--"
                               ELSE Fixed1(Get(data, "distance_km")) \o " km",
                  !.duration = IF Nullish(Get(data, "duration_min")) THEN "--"
                               ELSE RoundedMin(Get(data, "duration_min")),
                  !.riskText = JsString(OrElse(Get(data, "bridge_risk"), S("Unknown"))),
                  !.badgeClass =
                    CASE Get(data, "bridge_risk") = S("Low risk") -> "risk-pill risk-low"
                      [] Get(data, "bridge_risk") = S("Medium risk") -> "risk-pill risk-medium"
                      [] Get(data, "bridge_risk") = S("High risk") -> "risk-pill risk-high"
                      [] OTHER -> "risk-pill"]),
    LAMBDA w :
      IF Nullish(Get(data, "nearest_bridge_height_m"))
           \/ Nullish(Get(data, "nearest_bridge_distance_m"))
        THEN Ok([w EXCEPT !.nearest = "None on route"])
        ELSE Try(~IsNumber(Get(data, "nearest_bridge_height_m"))
                   \/ ~IsNumber(Get(data, "nearest_bridge_distance_m")), w,
                 [w EXCEPT !.nearest = Fixed2(Get(data, "nearest_bridge_height_m")) \o " m at "
                                         \o Fixed0(Get(data, "nearest_bridge_distance_m"))
                                         \o " m from route"]))

\* lines 93-103: remove the layers of the previous response
clearLayers_p3(m) == NoMap

hazardDrawn_p3(h) == ~Nullish(Get(h, "lat")) /\ ~Nullish(Get(h, "lon"))

hazardThrows_p3(h) ==
  Nullish(h) \/ (hazardDrawn_p3(h) /\ BadLatLng(Get(h, "lat"), Get(h, "lon")))

\* lines 106-135: the points of a geometry whose coordinates are an array
coordsOf_p3(g) ==
  IF Truthy(g) /\ IsArray(Get(g, "coordinates"))
    THEN geojsonCoordsToLatLngs(Get(g, "coordinates")) ELSE <<>>

\* lines 141-152
hazardMarker_p3(h) ==
  [at |-> <<Get(h, "lat"), Get(h, "lon")>>,
   color |-> "#3388ff",
   popup |-> IF Truthy(Get(h, "label")) THEN JsString(Get(h, "label")) ELSE ""]

\* lines 89-156: the old layers go, then main line and fit, alternative
\* line, and the hazards before the first one that throws
updateMap_p3(v, data) ==
  Then(
    Ok([v EXCEPT !.map = [clearLayers_p3(v.map) EXCEPT
                            !.main = @ \o (IF coordsOf_p3(Get(data, "geometry")) # <<>>
                                       THEN <<coordsOf_p3(Get(data, "geometry"))>> ELSE <<>>),
                            !.alt = @ \o (IF coordsOf_p3(Get(data, "alt_geometry")) # <<>>
                                      THEN <<coordsOf_p3(Get(data, "alt_geometry"))>> ELSE <<>>)],
                 !.fit = IF coordsOf_p3(Get(data, "geometry")) # <<>>
                           THEN PointsOf(coordsOf_p3(Get(data, "geometry"))) ELSE @]),
    LAMBDA w :
      IF ~IsArray(Get(data, "hazards")) THEN Ok(w)
      ELSE Raise(Throws(Get(data, "hazards").a, hazardThrows_p3),
                 [w EXCEPT !.map.bridges =
                    @ \o Map(SelectSeq(Before(Get(data, "hazards").a, hazardThrows_p3),
                                  hazardDrawn_p3),
                        hazardMarker_p3)]))

\* lines 224-225
render_p3(v, data) == Then(updateSummary_p3(v, data), LAMBDA w : updateMap_p3(w, data))

\* lines 159-163: the messages are cleared before the fields are read
begin_p3(v) == setStatus(setError_p3(v, ""), "Generating route...")

\* lines 159-209: the handler up to its fetch
submit_p3(v, in, elementsPresent) ==
  IF ~elementsPresent
    THEN Rejected(setStatus(setError_p3(begin_p3(v), "Form fields missing in the page."),
                            "Error"), "missingElements")
  ELSE IF Trim(in.start) = <<>> \/ Trim(in.end) = <<>> \/ Trim(in.height) = <<>>
    THEN Rejected(setStatus(setError_p3(begin_p3(v),
                    "Please fill in all fields before generating a route."),
                    "Missing details"), "missingField")
  ELSE IF isNaN(parseFloat(Trim(in.height))) \/ parseFloat(Trim(in.height)).n <= 0
    THEN Rejected(setStatus(setError_p3(begin_p3(v),
                    "Vehicle height must be a positive number in metres."),
                    "Invalid vehicle height"), "invalidHeight")
  ELSE Sent(begin_p3(v), Trim(in.start), Trim(in.end), parseFloat(Trim(in.height)), FALSE)

\* lines 228-232
catch_p3(v) ==
  setStatus(setError_p3(v, "Error generating route. Check the API is up and try again."),
            "Error generating route")

\* lines 211-232 once fetch has resolved
settle_p3(v, resp) ==
  IF ~resp.ok
    THEN Done(setStatus(setError_p3(v, "Error from RouteSafe API (" \o IntStr(resp.status)
                                         \o "). Try again or check logs."),
                        "Error generating route"), "http", FALSE)
  ELSE IF ~resp.parses THEN Done(catch_p3(v), "parse", FALSE)
  ELSE Finish(render_p3(v, resp.body), catch_p3,
              LAMBDA w : setStatus(w, "Route generated successfully."))

(***************************************************************************)
(* Variant "p4": src/unnamed/part_004                                      *)
(***************************************************************************)
\* global isNaN(value): texts, objects and arrays of the payloads convert to NaN
NotNumeric(x) == x.t \in {"nan", "str", "obj", "arr"}

\* the number a numeric value converts to, in tenths: true is 1, false is 0
AsTenths(x) == IF x.t = "bool" THEN (IF x.b THEN 10 ELSE 0) ELSE x.n

\* value / 1000, to one decimal place of the result
Div1000(n) == (n + 500) \div 1000

\* lines 58-62; a value in tenths
formatKm(value) ==
  IF Nullish(value) \/ NotNumeric(value) THEN "--"
  ELSE toFixed1(IF value.n > 10000 THEN Div1000(value.n) ELSE value.n) \o " km"

\* lines 64-71
formatMinutes_p4(value) ==
  IF Nullish(value) \/ NotNumeric(value) THEN "--"
  ELSE IF MathRound(AsTenths(value)) < 60 THEN IntStrSigned(MathRound(AsTenths(value))) \o " min"
  ELSE IF MathRound(AsTenths(value)) % 60 # 0
    THEN IntStr(MathRound(AsTenths(value)) \div 60) \o "h "
           \o IntStr(MathRound(AsTenths(value)) % 60) \o "m"
  ELSE IntStr(MathRound(AsTenths(value)) \div 60) \o "h"

\* lines 73-77
formatBridgeDistance(value) ==
  IF Nullish(value) \/ NotNumeric(value) THEN "--"
  ELSE IF AsTenths(value) > 10000 THEN toFixed1(Div1000(AsTenths(value))) \o " km"
  ELSE IntStrSigned(MathRound(AsTenths(value))) \o " m"

\* lines 79-84
getRiskClass(risk) ==
  IF Lower(risk, "") = "high" THEN "risk-high"
  ELSE IF Lower(risk, "") \in {"medium", "med"} THEN "risk-medium"
  ELSE "risk-low"

\* lines 104-105
riskText_p4(data) ==
  OrElse(Get(data, "bridge_risk"), OrElse(Get(data, "risk_level"), S("Low")))

\* lines 86-125: whatever the body throws is caught and logged.  A boolean
\* distance has no toFixed; the old badge classes are removed before the
\* new one is computed.
updateSummary_p4(v, data) ==
  IF Nullish(data) THEN v
  ELSE
  Then(Then(
    Try(Coalesce(Get(data, "distance_km"), Get(data, "distance_m")).t = "bool", v,
        [v EXCEPT !.distance = formatKm(Coalesce(Get(data, "distance_km"),
                                                 Get(data, "distance_m"))),
                  !.duration = formatMinutes_p4(Coalesce(Get(data, "duration_min"),
                                                         Get(data, "duration_minutes"))),
                  !.riskText = JsString(riskText_p4(data))]),
    LAMBDA w :
      IF Nullish(Get(data, "nearest_bridge_distance_m"))
        THEN Ok([w EXCEPT !.nearest = "None on route"])
        ELSE Try(NoToFixed(Get(data, "nearest_bridge_height_m")), w,
                 [w EXCEPT !.nearest =
                    formatBridgeDistance(Get(data, "nearest_bridge_distance_m"))
                      \o (IF Nullish(Get(data, "nearest_bridge_height_m")) THEN ""
                          ELSE " away | " \o Fixed2(Get(data, "nearest_bridge_height_m"))
                                 \o " m")])),
    LAMBDA w :
      Try(LowerThrows(riskText_p4(data)),
          [w EXCEPT !.badgeText = JsString(riskText_p4(data)), !.badgeClass = ""],
          [w EXCEPT !.badgeText = JsString(riskText_p4(data)),
                    !.badgeClass = getRiskClass(riskText_p4(data))])).v

\* lines 129-134
lineFromGeoJson(geo) ==
  IF ~Truthy(geo) \/ Get(geo, "type") # S("LineString") \/ ~IsArray(Get(geo, "coordinates"))
    THEN Null
    ELSE A(coordsToLatLngs(Get(geo, "coordinates")))

\* lines 136-152
extractMainGeometry_p4(geometry) ==
  IF ~Truthy(geometry) THEN Null
  ELSE IF Get(geometry, "type") = S("LineString") THEN geometry
  ELSE IF /\ Get(geometry, "type") = S("FeatureCollection")
          /\ IsArray(Get(geometry, "features"))
          /\ Truthy(Elem(Get(geometry, "features"), 1))
          /\ Truthy(Get(Elem(Get(geometry, "features"), 1), "geometry"))
          /\ Get(Get(Elem(Get(geometry, "features"), 1), "geometry"), "type")
               = S("LineString")
    THEN Get(Elem(Get(geometry, "features"), 1), "geometry")
  ELSE Null

\* lines 161-172: remove the layers of the previous response
clearLayers_p4(m) == NoMap

\* lines 189-196: the [lat, lon] a bridges element contributes, if any
bridgePoint_p4(b) ==
  IF IsArray(b) /\ Len(b.a) >= 2 THEN <<LatLng(b)>>
  ELSE IF Truthy(b) /\ Get(b, "lat").t = "num" /\ Get(b, "lon").t = "num"
    THEN << <<Get(b, "lat"), Get(b, "lon")>> >>
  ELSE <<>>

RECURSIVE bridgePoints_p4(_)
bridgePoints_p4(q) ==
  IF q = <<>> THEN <<>> ELSE bridgePoint_p4(Head(q)) \o bridgePoints_p4(Tail(q))

\* lines 154-218: whatever the drawing throws is caught and logged.  The
\* destructuring in lineFromGeoJson throws on an element that is not
\* iterable; the markers are built before their layer reaches the map.
drawRouteOnMap_p4(v, geometry) ==
  IF ~Truthy(geometry) THEN v
  ELSE
  Then(Then(
    IF ~Truthy(lineFromGeoJson(extractMainGeometry_p4(geometry)))
      THEN Ok([v EXCEPT !.map = clearLayers_p4(v.map)])
      ELSE Try(mapThrows_p1b(Get(extractMainGeometry_p4(geometry), "coordinates")),
               [v EXCEPT !.map = clearLayers_p4(v.map)],
               [v EXCEPT !.map = [clearLayers_p4(v.map) EXCEPT !.main =
                  @ \o (IF lineFromGeoJson(extractMainGeometry_p4(geometry)).a # <<>>
                          THEN <<lineFromGeoJson(extractMainGeometry_p4(geometry)).a>>
                          ELSE <<>>)]]),
    LAMBDA w :
      IF ~IsArray(Get(geometry, "bridges")) THEN Ok(w)
      ELSE Try(\E p \in PointsOf(bridgePoints_p4(Get(geometry, "bridges").a)) :
                 BadLatLng(p[1], p[2]),
               w,
               [w EXCEPT !.map.bridges =
                  @ \o Map(bridgePoints_p4(Get(geometry, "bridges").a),
                      LAMBDA p : [at |-> p, color |-> "#3388ff", popup |-> ""])])),
    LAMBDA w :
      Ok(IF w.map.main = <<>> /\ w.map.bridges = <<>> THEN w
         ELSE [w EXCEPT !.fit = LinePoints(w.map.main)
                                  \cup {w.map.bridges[i].at : i \in 1..Len(w.map.bridges)}])).v

\* lines 14-21
showError_p4(v, message) == [v EXCEPT !.error = message, !.errorShown = TRUE]

\* lines 23-27
clearError_p4(v) == [v EXCEPT !.errorShown = FALSE]

\* lines 292-298: reading data.geometry throws on a body that is null
render_p4(v, data) ==
  IF Nullish(data) THEN Throw(updateSummary_p4(v, data))
  ELSE IF Truthy(Get(data, "geometry"))
    THEN Ok(drawRouteOnMap_p4(updateSummary_p4(v, data), Get(data, "geometry")))
  ELSE Ok(updateSummary_p4(v, data))

\* lines 222-268: the handler up to its fetch
submit_p4(v, in) ==
  IF Trim(in.start) = <<>> \/ Trim(in.end) = <<>> \/ Trim(in.height) = <<>>
    THEN Rejected(showError_p4(clearError_p4(v),
                               "Please enter start, destination and vehicle height."),
                  "missingField")
  ELSE IF isNaN(ToNumber(Trim(in.height))) \/ ToNumber(Trim(in.height)).n <= 0
    THEN Rejected(showError_p4(clearError_p4(v), "Vehicle height must be a positive number."),
                  "invalidHeight")
  ELSE Sent(setStatus(clearError_p4(v), "Contacting RouteSafe engine..."),
            Trim(in.start), Trim(in.end), ToNumber(Trim(in.height)), TRUE)

\* lines 301-304
catch_p4(v) ==
  setStatus(showError_p4(v, "Unable to reach RouteSafe engine. Please try again."),
            "Error contacting RouteSafe engine.")

\* lines 271-282: the text of the error banner for a non-2xx response
errorDetail(resp, dflt) ==
  IF resp.parses /\ Truthy(resp.body) /\ Truthy(Get(resp.body, "detail"))
    THEN IF IsString(Get(resp.body, "detail")) THEN Get(resp.body, "detail").s
         ELSE JSONstringify(Get(resp.body, "detail"))
    ELSE dflt

\* lines 270-310 once fetch has resolved
settle_p4(v, resp) ==
  IF ~resp.ok
    THEN Done(setStatus(showError_p4(v, errorDetail(resp, "RouteSafe API error ("
                                           \o IntStr(resp.status) \o ")")),
                        "Error from RouteSafe engine."), "http", FALSE)
  ELSE IF ~resp.parses THEN Done(catch_p4(v), "parse", FALSE)
  ELSE Finish(render_p4(v, resp.body), catch_p4, LAMBDA w : setStatus(w, "Route generated."))

(***************************************************************************)
(* Variant "p5": src/unnamed/part_005                                      *)
(***************************************************************************)
\* lines 42-58: the text is written and the old classes removed before
\* toLowerCase is called
setRiskBadge_p5(v, riskText) ==
  Try(LowerThrows(riskText), [v EXCEPT !.badgeText = JsString(riskText), !.badgeClass = ""],
      [v EXCEPT !.badgeText = JsString(riskText),
                !.badgeClass = IF includes(Lower(riskText, ""), "low") THEN "risk-low"
                               ELSE IF includes(Lower(riskText, ""), "medium") THEN "risk-medium"
                               ELSE IF includes(Lower(riskText, ""), "high") THEN "risk-high"
                               ELSE "risk-low"])

\* lines 60-63
showError_p5(v, message) == [v EXCEPT !.error = message, !.errorShown = TRUE]

\* lines 65-68
hideError(v) == [v EXCEPT !.error = "", !.errorShown = FALSE]

\* a coordinate L.geoJSON cannot turn into a LatLng
BadPoint(c) == Nullish(c) \/ BadLatLng(Elem(c, 2), Elem(c, 1))

\* L.geoJSON addData of a Feature: throws on a geometry that is not a
\* LineString of [lon, lat] number pairs
addDataThrows(geometry) ==
  \/ Get(geometry, "type") # S("LineString")
  \/ ~IsArray(Get(geometry, "coordinates"))
  \/ \E i \in 1..Len(Get(geometry, "coordinates").a) :
        BadPoint(Get(geometry, "coordinates").a[i])

\* geometry.coordinates.length is 0 or missing
NoCoordinates(geometry) ==
  \/ ~Truthy(geometry)
  \/ ~Truthy(Get(geometry, "coordinates"))
  \/ LengthOf(Get(geometry, "coordinates")) = N(0)

\* lines 116-118: empty the three layers
clearLayers_p5(m) == NoMap

\* lines 115-140
renderRouteOnMap_p5(v, geometry) ==
  IF NoCoordinates(geometry) THEN Ok([v EXCEPT !.map = clearLayers_p5(v.map)])
  ELSE Try(addDataThrows(geometry), [v EXCEPT !.map = clearLayers_p5(v.map)],
           [v EXCEPT !.map = [clearLayers_p5(v.map) EXCEPT
                                !.main = @ \o <<coordsToLatLngs(Get(geometry, "coordinates"))>>],
                     !.fit = PointsOf(coordsToLatLngs(Get(geometry, "coordinates")))])

\* typeof x === "number" ? x.toFixed(..) + unit : "--"
NumberOrDash(x, Fmt(_), unit) == IF IsNumber(x) THEN Fmt(x) \o unit ELSE "--"

\* lines 142-169
updateSummaryFromResponse(v, data) ==
  IF Nullish(data) THEN Throw(v)
  ELSE
  Then(setRiskBadge_p5(
         [v EXCEPT !.distance = NumberOrDash(Get(data, "distance_km"), Fixed1, " km"),
                   !.duration = NumberOrDash(Get(data, "duration_min"), Fixed0, " min"),
                   !.riskText = JsString(OrElse(Get(data, "bridge_risk"), S("Unknown")))],
         OrElse(Get(data, "bridge_risk"), S("Unknown"))),
       LAMBDA w :
         IF Nullish(Get(data, "nearest_bridge_height_m"))
              \/ Nullish(Get(data, "nearest_bridge_distance_m"))
           THEN Ok([w EXCEPT !.nearest = "None on route",
                             !.status = "Route generated successfully."])
           ELSE Try(~IsNumber(Get(data, "nearest_bridge_height_m"))
                      \/ ~IsNumber(Get(data, "nearest_bridge_distance_m")), w,
                    [w EXCEPT !.nearest = Fixed2(Get(data, "nearest_bridge_height_m")) \o " m, "
                                            \o Fixed0(Get(data, "nearest_bridge_distance_m"))
                                            \o " m away",
                              !.status = "Route generated successfully."]))

\* lines 202-203
render_p5(v, result) ==
  Then(updateSummaryFromResponse(v, result),
       LAMBDA w : renderRouteOnMap_p5(w, Get(result, "geometry")))

\* lines 171-201 and 70-82: the handler up to its fetch
submit_p5(v, in) ==
  IF Trim(in.start) = <<>> \/ Trim(in.end) = <<>> \/ Trim(in.height) = <<>>
    THEN Rejected(showError_p5(hideError(v),
                               "Please enter start, destination, and vehicle height."),
                  "missingField")
  ELSE IF isNaN(parseFloat(Trim(in.height))) \/ parseFloat(Trim(in.height)).n <= 0
    THEN Rejected(showError_p5(hideError(v), "Please enter a valid vehicle height in metres."),
                  "invalidHeight")
  ELSE Sent(setStatus(hideError(v), "Contacting RouteSafe API..."),
            Trim(in.start), Trim(in.end), parseFloat(Trim(in.height)), FALSE)

\* lines 107-112
catch_p5(v, message) ==
  setStatus(showError_p5(v, IF message = "" THEN "Unknown error from RouteSafe API."
                            ELSE message),
            "Error contacting RouteSafe API.")

\* lines 84-104: the message of the Error thrown for a non-2xx response
httpMessage_p5(resp) ==
  IF errorDetail(resp, "") # ""
    THEN "Error from RouteSafe API (" \o IntStr(resp.status) \o "): " \o errorDetail(resp, "")
    ELSE "Error from RouteSafe API (" \o IntStr(resp.status) \o "). Try again or check logs."

\* lines 84-112 and 200-206 once fetch has resolved; the catch around the
\* rendering (202-206) is empty
settle_p5(v, resp) ==
  IF ~resp.ok THEN Done(catch_p5(v, httpMessage_p5(resp)), "http", FALSE)
  ELSE IF ~resp.parses THEN Done(catch_p5(v, "Unexpected end of JSON input"), "parse", FALSE)
  ELSE Finish(render_p5(v, resp.body), LAMBDA w : w, LAMBDA w : w)

(***************************************************************************)
(* Variant "fa": src/frontend/main.js 1-213                                *)
(***************************************************************************)
\* lines 23-41: nothing is cleared when the response has no coordinates
renderRouteOnMap_fa(v, geometry) ==
  IF ~Truthy(geometry) \/ ~Truthy(Get(geometry, "coordinates"))
       \/ ~Truthy(LengthOf(Get(geometry, "coordinates")))
    THEN Ok(v)
  ELSE Try(addDataThrows(geometry), [v EXCEPT !.map.main = <<>>],
           [v EXCEPT !.map.main = <<coordsToLatLngs(Get(geometry, "coordinates"))>>,
                     !.fit = PointsOf(coordsToLatLngs(Get(geometry, "coordinates")))])

\* lines 44-57
setRiskBadge_fa(v, text) ==
  Try(LowerThrows(text), v,
      [v EXCEPT !.badgeText = JsString(OrElse(text, S("Unknown"))),
                !.badgeClass = IF includes(Lower(text, ""), "low") THEN "risk-low"
                               ELSE IF includes(Lower(text, ""), "medium") THEN "risk-medium"
                               ELSE IF includes(Lower(text, ""), "high") THEN "risk-high"
                               ELSE "risk-low"])

\* lines 59-70
showError_fa(v, msg) ==
  [v EXCEPT !.error = msg, !.errorShown = TRUE, !.status = "Error contacting RouteSafe API."]

\* lines 158-190
render_fa(v, result) ==
  IF Nullish(result) THEN Throw(v)
  ELSE
  Then(Then(
    setRiskBadge_fa(
      [v EXCEPT !.distance = NumberOrDash(Get(result, "distance_km"), Fixed1, " km"),
                !.duration = NumberOrDash(Get(result, "duration_min"), Fixed0, " min"),
                !.riskText = JsString(OrElse(Get(result, "bridge_risk"), S("Unknown")))],
      OrElse(Get(result, "bridge_risk"), S("Unknown"))),
    LAMBDA w :
      IF Nullish(Get(result, "nearest_bridge_height_m"))
           \/ Nullish(Get(result, "nearest_bridge_distance_m"))
        THEN Ok([w EXCEPT !.nearest = "None on route"])
        ELSE Try(~IsNumber(Get(result, "nearest_bridge_height_m"))
                   \/ ~IsNumber(Get(result, "nearest_bridge_distance_m")), w,
                 [w EXCEPT !.nearest = Fixed2(Get(result, "nearest_bridge_height_m")) \o " m, "
                                         \o Fixed0(Get(result, "nearest_bridge_distance_m"))
                                         \o " m away"])),
    LAMBDA w : renderRouteOnMap_fa(w, Get(result, "geometry")))

\* lines 109-153 and 73-84: the handler up to its fetch
submit_fa(v, in, elementsPresent) ==
  IF ~elementsPresent
    THEN Rejected(showError_fa(v, "Frontend inputs/buttons not found. Check element IDs."),
                  "missingElements")
  ELSE IF Trim(in.start) = <<>> \/ Trim(in.end) = <<>> \/ Trim(in.height) = <<>>
    THEN Rejected(showError_fa(v,
                    "Please enter start location, destination and vehicle height."),
                  "missingField")
  ELSE IF ~Truthy(parseFloat(Trim(in.height))) \/ parseFloat(Trim(in.height)).n <= 0
    THEN Rejected(showError_fa(v, "Please enter a valid vehicle height in metres."),
                  "invalidHeight")
  ELSE Sent(setStatus(v, "Contacting RouteSafe API..."),
            Trim(in.start), Trim(in.end), parseFloat(Trim(in.height)), TRUE)

\* lines 86-100: the message of the Error thrown for a non-2xx response
httpMessage_fa(resp) ==
  IF errorDetail(resp, "") # ""
    THEN "Error from RouteSafe API (" \o IntStr(resp.status) \o "): " \o errorDetail(resp, "")
    ELSE "Error from RouteSafe API (" \o IntStr(resp.status) \o ")."

\* lines 86-106 and 156-196 once fetch has resolved
settle_fa(v, resp) ==
  IF ~resp.ok THEN Done(showError_fa(v, httpMessage_fa(resp)), "http", FALSE)
  ELSE IF ~resp.parses
    THEN Done(showError_fa(v, "Unexpected end of JSON input"), "parse", FALSE)
  ELSE Finish(render_fa(setStatus(v, "Route generated successfully."), resp.body),
              LAMBDA w : showError_fa(w, "TypeError"), LAMBDA w : w)

(***************************************************************************)
(* Variant "fb": src/frontend/main.js 214-408                              *)
(***************************************************************************)
\* lines 247-258
clearMapOverlays(m) == NoMap

\* lines 267-281
setRiskBadge_fb(v, risk) ==
  Try(LowerThrows(risk), v,
      [v EXCEPT !.badgeText = IF Lower(risk, "") = "high" THEN "High"
                              ELSE IF Lower(risk, "") \in {"medium", "moderate"} THEN "Medium"
                              ELSE "Low",
                !.badgeClass = IF Lower(risk, "") = "high" THEN "risk-high"
                               ELSE IF Lower(risk, "") \in {"medium", "moderate"}
                                 THEN "risk-medium"
                               ELSE "risk-low"])

\* lines 283-303
updateSummary_fb(v, data) ==
  IF ~Truthy(data) THEN Ok(v)
  ELSE
  Then(Then(Then(
    Try(NoToFixed(Get(data, "distance_km")), v,
        [v EXCEPT !.distance = IF Nullish(Get(data, "distance_km")) THEN "--"
                               ELSE Fixed1(Get(data, "distance_km")) \o " km"]),
    LAMBDA w :
      Try(NoToFixed(Get(data, "duration_min")), w,
          [w EXCEPT !.duration = IF Nullish(Get(data, "duration_min")) THEN "--"
                                 ELSE Fixed0(Get(data, "duration_min")) \o " min",
                    !.riskText = JsString(OrElse(Get(data, "bridge_risk"), S("--")))])),
    LAMBDA w :
      IF Nullish(Get(data, "nearest_bridge_height_m"))
           \/ Nullish(Get(data, "nearest_bridge_distance_m"))
        THEN Ok([w EXCEPT !.nearest = "--"])
        ELSE Try(~IsNumber(Get(data, "nearest_bridge_height_m"))
                   \/ ~IsNumber(Get(data, "nearest_bridge_distance_m")), w,
                 [w EXCEPT !.nearest = Fixed1(Get(data, "nearest_bridge_height_m")) \o " m | "
                                         \o Fixed0(Get(data, "nearest_bridge_distance_m"))
                                         \o " m away"])),
    LAMBDA w : setRiskBadge_fb(w, Get(data, "bridge_risk")))

bridgeDrawn_fb(b) == ~Nullish(Get(b, "lat")) /\ ~Nullish(Get(b, "lon"))

bridgeThrows_fb(b) == Nullish(b) \/ (bridgeDrawn_fb(b) /\ BadLatLng(Get(b, "lat"), Get(b, "lon")))

\* lines 325-334
marker_fb(b) ==
  [at |-> <<Get(b, "lat"), Get(b, "lon")>>, color |-> "#fb923c",
   popup |-> "Low bridge Height: "
               \o (IF IsNumber(Get(b, "height_m")) THEN Fixed1(Get(b, "height_m"))
                   ELSE JsString(Get(b, "height_m")))
               \o " m"]

\* lines 305-338: the old overlays go, then the line and its bounds, then
\* the bridges before the first one that throws
updateMapFromGeometry(v, geometry, bridges) ==
  IF NoCoordinates(geometry) THEN Ok([v EXCEPT !.map = clearMapOverlays(v.map)])
  ELSE
  Then(
    Try(mapThrows_p1b(Get(geometry, "coordinates")),
        [v EXCEPT !.map = clearMapOverlays(v.map)],
        [v EXCEPT !.map = [clearMapOverlays(v.map) EXCEPT
                             !.main = @ \o <<coordsToLatLngs(Get(geometry, "coordinates"))>>],
                  !.fit = PointsOf(coordsToLatLngs(Get(geometry, "coordinates")))]),
    LAMBDA w :
      IF ~IsArray(bridges) THEN Ok(w)
      ELSE Raise(Throws(bridges.a, bridgeThrows_fb),
                 [w EXCEPT !.map.bridges =
                    @ \o Map(SelectSeq(Before(bridges.a, bridgeThrows_fb), bridgeDrawn_fb),
                        marker_fb)]))

\* lines 391-392
render_fb(v, data) ==
  Then(updateSummary_fb(v, data),
       LAMBDA w : IF Nullish(data) THEN Throw(w)
                  ELSE updateMapFromGeometry(w, Get(data, "geometry"),
                                             OrElse(Get(data, "bridge_points"), A(<<>>))))

\* lines 340-376: the handler up to its fetch
submit_fb(v, in) ==
  IF Trim(in.start) = <<>> \/ Trim(in.end) = <<>> \/ Trim(in.height) = <<>>
    THEN Rejected(setStatus(v, "Please enter start, destination and vehicle height."),
                  "missingField")
  ELSE IF isNaN(parseFloat(Trim(in.height))) \/ parseFloat(Trim(in.height)).n <= 0
    THEN Rejected(setStatus(v, "Vehicle height must be a valid number in metres."),
                  "invalidHeight")
  ELSE Sent(setStatus(v, "Contacting RouteSafe engine..."),
            Trim(in.start), Trim(in.end), parseFloat(Trim(in.height)), TRUE)

\* lines 394-396
catch_fb(v) == setStatus(v, "Error contacting RouteSafe engine. Please try again.")

\* lines 378-400 once fetch has resolved
settle_fb(v, resp) ==
  IF ~resp.ok
    THEN Done(setStatus(v, "Error from RouteSafe engine (status " \o IntStr(resp.status)
                             \o ")."), "http", FALSE)
  ELSE IF ~resp.parses THEN Done(catch_fb(v), "parse", FALSE)
  ELSE Finish(render_fb(v, resp.body), catch_fb,
              LAMBDA w : setStatus(w, "Route generated successfully."))

(***************************************************************************)
(* "p0": src/unnamed/part_000 204-252, the routeForm submit handler that   *)
(* cleans UK postcodes before sending them.  The file ends inside the      *)
(* fetch call, so this front end is modelled up to its request only.       *)
(***************************************************************************)
LowerChars == <<"a", "b", "c", "d", "e", "f", "g", "h", "i", "j", "k", "l", "m",
                "n", "o", "p", "q", "r", "s", "t", "u", "v", "w", "x", "y", "z">>
UpperChars == <<"A", "B", "C", "D", "E", "F", "G", "H", "I", "J", "K", "L", "M",
                "N", "O", "P", "Q", "R", "S", "T", "U", "V", "W", "X", "Y", "Z">>

\* String.prototype.toUpperCase, one character
UpperChar(c) ==
  IF \E i \in 1..26 : LowerChars[i] = c
    THEN UpperChars[CHOOSE i \in 1..26 : LowerChars[i] = c]
    ELSE c

\* value.toUpperCase()
toUpperCase(q) == [i \in 1..Len(q) |-> UpperChar(q[i])]

\* c matches [A-Z0-9]
IsAlnum(c) == IsDigit(c) \/ \E i \in 1..26 : UpperChars[i] = c

\* normalisePostcode without its toUpperCase
normalisePostcodeTyped(value) ==
  LET raw == SelectSeq(value, IsAlnum)
  IN  IF value = <<>> THEN value
      ELSE IF Len(raw) < 5 \/ Len(raw) > 7 THEN Trim(value)
      ELSE SubSeq(raw, 1, Len(raw) - 3) \o <<" ">> \o SubSeq(raw, Len(raw) - 2, Len(raw))

\* lines 209-217: normalisePostcode
normalisePostcode(value) ==
  LET raw == SelectSeq(toUpperCase(value), IsAlnum)
  IN  IF value = <<>> THEN value
      ELSE IF Len(raw) < 5 \/ Len(raw) > 7 THEN Trim(value)
      ELSE SubSeq(raw, 1, Len(raw) - 3) \o <<" ">> \o SubSeq(raw, Len(raw) - 2, Len(raw))

\* the handler, had it sent the fields as typed
sendTyped_p0(v, in) ==
  Sent([v EXCEPT !.status = "Requesting safe HGV route from RouteSafe-AI..."],
       in.start, in.end, parseFloat(in.height), FALSE)

\* lines 228-252: the handler up to its fetch
submit_p0(v, in) ==
  Sent([v EXCEPT !.status = "Requesting safe HGV route from RouteSafe-AI..."],
       normalisePostcode(in.start), normalisePostcode(in.end), parseFloat(in.height), FALSE)

(***************************************************************************)
(* The page as a state machine.                                            *)
(***************************************************************************)
Variants == {"m1", "m2", "p1a", "p1b", "p2", "p3", "p4", "p5", "fa", "fb"}

\* the variants whose handler looks for its form elements before using them
ChecksElements == {"p2", "p3", "fa"}

\* What the user may have typed into start, end and vehicle height.
InputSamples ==
  { [start |-> <<"L", "S", "1">>, end |-> <<"M", "1">>, height |-> <<"4", ".", "9">>],
    [start |-> <<" ", "L", "S", "1", " ">>, end |-> <<"M", "1">>,
     height |-> <<" ", "4", ".", "9", " ">>],
    [start |-> <<>>, end |-> <<"M", "1">>, height |-> <<"4", ".", "9">>],
    [start |-> <<" ">>, end |-> <<"M", "1">>, height |-> <<"4", ".", "9">>],
    [start |-> <<"L", "S", "1">>, end |-> <<>>, height |-> <<"4", ".", "9">>],
    [start |-> <<"L", "S", "1">>, end |-> <<"M", "1">>, height |-> <<>>],
    [start |-> <<"L", "S", "1">>, end |-> <<"M", "1">>, height |-> <<"x">>],
    [start |-> <<"L", "S", "1">>, end |-> <<"M", "1">>, height |-> <<"0">>],
    [start |-> <<"L", "S", "1">>, end |-> <<"M", "1">>, height |-> <<"-", "1">>],
    [start |-> <<"L", "S", "1">>, end |-> <<"M", "1">>, height |-> <<"4", "x">>] }

\* the handler of the running variant, up to its fetch
SubmitOf(var, v, in, elementsPresent) ==
  CASE var = "m1" -> submit_m1(v, in)
    [] var = "m2" -> submit_m2(v, in)
    [] var = "p1a" -> submit_p1a(v, in)
    [] var = "p1b" -> submit_p1b(v, in)
    [] var = "p2" -> submit_p2(v, in, elementsPresent)
    [] var = "p3" -> submit_p3(v, in, elementsPresent)
    [] var = "p4" -> submit_p4(v, in)
    [] var = "p5" -> submit_p5(v, in)
    [] var = "fa" -> submit_fa(v, in, elementsPresent)
    [] var = "fb" -> submit_fb(v, in)
    [] var = "p0" -> submit_p0(v, in)

\* the rest of the handler when fetch rejects
NetfailOf(var, v, body) ==
  CASE var = "m1" -> Done(catch_m1(v), "netfail", FALSE)
    [] var = "m2" -> Done(catch_m2(v, "TypeError: Failed to fetch"), "netfail", FALSE)
    [] var = "p1a" -> Done(catch_p1a(v, body), "netfail", FALSE)
    [] var = "p1b" -> Done(catch_p1b(v), "netfail", FALSE)
    [] var = "p2" -> Done(showLoading_p2(catch_p2(v), FALSE), "netfail", FALSE)
    [] var = "p3" -> Done(catch_p3(v), "netfail", FALSE)
    [] var = "p4" -> Done(catch_p4(v), "netfail", FALSE)
    [] var = "p5" -> Done(catch_p5(v, "Failed to fetch"), "netfail", FALSE)
    [] var = "fa" -> Done(showError_fa(v, "Failed to fetch"), "netfail", FALSE)
    [] var = "fb" -> Done(catch_fb(v), "netfail", FALSE)

\* the rest of the handler once the response and its body have arrived
SettleOf(var, v, resp, body) ==
  CASE var = "m1" -> settle_m1(v, resp)
    [] var = "m2" -> settle_m2(v, resp)
    [] var = "p1a" -> settle_p1a(v, resp, body)
    [] var = "p1b" -> settle_p1b(v, resp)
    [] var = "p2" -> settle_p2(v, resp)
    [] var = "p3" -> settle_p3(v, resp)
    [] var = "p4" -> settle_p4(v, resp)
    [] var = "p5" -> settle_p5(v, resp)
    [] var = "fa" -> settle_fa(v, resp)
    [] var = "fb" -> settle_fb(v, resp)

\* what the running variant does with the parsed body of a 2xx response
RenderOf(var, v, data) ==
  CASE var = "m1" -> render_m1(v, data)
    [] var = "m2" -> render_m2(v, data)
    [] var = "p1a" -> handleRouteResponse(v, data)
    [] var = "p1b" -> renderRouteResult(v, data)
    [] var = "p2" -> render_p2(v, data)
    [] var = "p3" -> render_p3(v, data)
    [] var = "p4" -> render_p4(v, data)
    [] var = "p5" -> render_p5(v, data)
    [] var = "fa" -> render_fa(v, data)
    [] var = "fb" -> render_fb(v, data)

\* last: what the most recent handler run did.  shown is the payload whose
\* rendering is on the page (0: none, or something else was drawn since);
\* rep says the response just rendered was already the one on the page.
NoRun == [kind |-> "none", in |-> <<>>, outcome |-> "", post |-> FALSE,
          resp |-> Resp500, shown |-> 0, rep |-> FALSE]

Init ==
  /\ variant \in Variants
  /\ domOk \in (IF variant \in ChecksElements THEN BOOLEAN ELSE {TRUE})
  /\ btnDisabled = FALSE
  /\ inflight = {}
  /\ view = InitView
  /\ nPosts = 0
  /\ last = NoRun

\* The user submits the form (or clicks the button); a disabled submit
\* control does not fire.  The handler runs up to its first await.
Submit(in) ==
  LET r == SubmitOf(variant, view, in, domOk)
  IN  /\ ~btnDisabled
      /\ r.post => nPosts < MaxPosts
      /\ view' = r.v
      /\ btnDisabled' = r.btn
      /\ inflight' = IF r.post
                       THEN inflight \cup {Request(nPosts + 1, r.body)}
                       ELSE inflight
      /\ nPosts' = IF r.post THEN nPosts + 1 ELSE nPosts
      /\ last' = [NoRun EXCEPT !.kind = "submit", !.in = in, !.outcome = r.outcome,
                               !.post = r.post, !.shown = last.shown]
      /\ UNCHANGED <<variant, domOk>>

\* fetch rejects and the handler sends its request again
FetchFailResend(q) ==
  LET d == NetfailOf(variant, view, q.body)
  IN  /\ q \in inflight /\ q.pc = "fetch"
      /\ nPosts < MaxPosts
      /\ view' = d.v
      /\ btnDisabled' = d.btn
      /\ inflight' = (inflight \ {q}) \cup {Request(nPosts + 1, q.body)}
      /\ nPosts' = nPosts + 1
      /\ last' = [NoRun EXCEPT !.kind = "settle", !.outcome = "netfail",
                               !.shown = IF d.v.map = view.map THEN last.shown ELSE 0]
      /\ UNCHANGED <<variant, domOk>>

\* fetch rejects (network failure): the handler resumes in its catch path
FetchFail(q) ==
  LET d == NetfailOf(variant, view, q.body)
  IN  /\ q \in inflight /\ q.pc = "fetch"
      /\ view' = d.v
      /\ btnDisabled' = d.btn
      /\ inflight' = inflight \ {q}
      /\ last' = [NoRun EXCEPT !.kind = "settle", !.outcome = "netfail",
                               !.shown = IF d.v.map = view.map THEN last.shown ELSE 0]
      /\ UNCHANGED <<variant, domOk, nPosts>>

\* fetch resolves: the handler goes on to await the body of the response
FetchResolve(q) ==
  /\ q \in inflight /\ q.pc = "fetch"
  /\ inflight' = (inflight \ {q}) \cup {[q EXCEPT !.pc = "body"]}
  /\ UNCHANGED <<variant, domOk, btnDisabled, view, nPosts, last>>

\* the body of response resp has been read: the handler runs to its end
BodyResolve(q, resp) ==
  LET d == SettleOf(variant, view, resp, q.body)
  IN  /\ q \in inflight /\ q.pc = "body"
      /\ view' = d.v
      /\ btnDisabled' = d.btn
      /\ inflight' = inflight \ {q}
      /\ last' = [NoRun EXCEPT !.kind = "settle", !.outcome = d.outcome, !.resp = resp,
                               !.rep = d.outcome = "ok" /\ last.shown = resp.payload,
                               !.shown = IF d.outcome = "ok" THEN resp.payload
                                         ELSE IF d.v.map = view.map THEN last.shown ELSE 0]
      /\ UNCHANGED <<variant, domOk, nPosts>>

Next ==
  \/ \E in \in InputSamples : Submit(in)
  \/ \E q \in inflight : FetchFail(q)
  \/ \E q \in inflight : FetchResolve(q)
  \/ \E q \in inflight, resp \in Responses : BodyResolve(q, resp)

Spec == Init /\ [][Next]_vars

(***************************************************************************)
(* The request builders on their own: every front end, the one of          *)
(* part_000 included, run on what the user typed up to its fetch.          *)
(***************************************************************************)
QueryVariants == Variants \cup {"p0"}

\* postcodes as users type them: lower case, unspaced, padded, hyphenated
PostcodeSamples ==
  { [start |-> <<"l", "s", "1", "4", "a", "b">>, end |-> <<"M", "1">>,
     height |-> <<"4", ".", "9">>],
    [start |-> <<"L", "S", "1", " ", "4", "A", "B">>, end |-> <<" ", "m", "1", "1", "a", "e">>,
     height |-> <<"4">>],
    [start |-> <<"L", "S", "-", "1", "4">>, end |-> <<"l", "s", "1">>,
     height |-> <<" ", "4", ".", "9", " ">>],
    [start |-> <<"L", "e", "e", "d", "s", " ", "d", "o", "c", "k">>,
     end |-> <<"M", "1", " ", "1", "A", "E", " ">>, height |-> <<"4", ".", "9">>] }

QueryInputs == InputSamples \cup PostcodeSamples

InitQuery ==
  /\ variant \in QueryVariants
  /\ domOk \in (IF variant \in ChecksElements THEN BOOLEAN ELSE {TRUE})
  /\ btnDisabled = FALSE
  /\ inflight = {}
  /\ view = InitView
  /\ nPosts = 0
  /\ last = NoRun

NextQuery == \E in \in QueryInputs : Submit(in)

SpecQuery == InitQuery /\ [][NextQuery]_vars

(***************************************************************************)
(* The page fed with responses that name the same thing in several fields: *)
(* the machine above, the user typing one valid query, the backend         *)
(* answering with the bodies of FieldPayloads.                             *)
(***************************************************************************)
\* distance and duration both at the top level and under summary
PayloadTwoSummaries ==
  O([distance_km |-> N(100), duration_min |-> N(200),
     summary |-> O([distance_km |-> N(273), duration_min |-> N(420)])])

\* distance and duration as summary.distance and summary.duration only
PayloadSummaryNames ==
  O([summary |-> O([distance |-> N(273), duration |-> N(420)])])

\* warnings both as warnings and as bridge_warnings
PayloadTwoWarnings ==
  O([distance_km |-> N(100), duration_min |-> N(200),
     warnings |-> A(<<O([level |-> S("low"), message |-> S("w-a"),
                         description |-> S("w-a")])>>),
     bridge_warnings |-> A(<<O([lat |-> N(53740), lon |-> N(-1500),
                                level |-> S("low"), message |-> S("b-a"),
                                description |-> S("b-a")])>>)])

\* the main route under every name, a different line under each
PayloadManyGeometries ==
  O([distance_km |-> N(100), duration_min |-> N(200),
     geometry |-> LineString(Line2),
     main_geometry |-> LineString(Line3),
     main_route |-> O([geometry |-> LineString(AltLine3)]),
     main_geojson |-> LineString(Line3)])

\* the same with bare coordinate arrays, as the v1.1 handler of main.js reads them
PayloadTwoLines ==
  O([distance_km |-> N(100), duration_min |-> N(200),
     geometry |-> Line2,
     main_geometry |-> Line3])

\* the main route as main_geojson only
PayloadMainGeojson ==
  O([distance_km |-> N(100), duration_min |-> N(200),
     main_geojson |-> LineString(Line2)])

\* a low bridge at latitude lat
Bridge(lat) ==
  O([lat |-> N(lat), lon |-> N(-1500), height_m |-> N(46), risk_level |-> S("high"),
     message |-> S("Low bridge"), description |-> S("Low bridge")])

\* bridges under every name, a different bridge under each
PayloadManyMarkers ==
  O([distance_km |-> N(100), duration_min |-> N(200),
     geometry |-> LineString(Line2),
     bridge_markers |-> A(<<Bridge(53740)>>),
     bridges |-> A(<<Bridge(53741)>>),
     bridge_warnings |-> A(<<Bridge(53742)>>),
     hazards |-> A(<<Bridge(53743)>>)])

\* bridges as hazards only
PayloadHazards ==
  O([distance_km |-> N(100), duration_min |-> N(200),
     geometry |-> LineString(Line2),
     hazards |-> A(<<Bridge(53743)>>)])

\* a warning with the text w
Warning(w) == O([level |-> S("low"), message |-> S(w), description |-> S(w)])

\* a route with an empty list of warnings
PayloadEmptyWarnings ==
  O([distance_km |-> N(100), duration_min |-> N(200),
     warnings |-> A(<<>>)])

\* a route with two warnings
PayloadTwoWarningItems ==
  O([distance_km |-> N(100), duration_min |-> N(200),
     warnings |-> A(<<Warning("w-a"), Warning("w-b")>>)])

\* a route whose risk level is level, written as bridge_risk.level ("object")
\* or as the text bridge_risk ("flat"); the level "" is a route without one
RiskBody(shape, level) ==
  IF level = "" THEN O([distance_km |-> N(100), duration_min |-> N(200)])
  ELSE IF shape = "object"
    THEN O([distance_km |-> N(100), duration_min |-> N(200),
            bridge_risk |-> O([level |-> S(level), status_text |-> S("x")])])
  ELSE O([distance_km |-> N(100), duration_min |-> N(200), bridge_risk |-> S(level)])

RiskShapes == {"object", "flat"}

RiskLevels == <<"low", "medium", "high", "severe">>

RiskPayloads ==
  [i \in 1..Len(RiskLevels) |-> RiskBody("object", RiskLevels[i])]
    \o [i \in 1..Len(RiskLevels) |-> RiskBody("flat", RiskLevels[i])]
    \o <<RiskBody("flat", "")>>

\* a full route with the bridge markers ms
RouteWithMarkers(ms) ==
  O([distance_km |-> N(100), duration_min |-> N(200),
     summary |-> O([distance_km |-> N(100), duration_min |-> N(200)]),
     warnings |-> A(<<Warning("w-a")>>),
     steps |-> A(<<O([instruction |-> S("s-a")])>>),
     geometry |-> LineString(Line2),
     alt_geometry |-> LineString(AltLine3),
     bridge_markers |-> A(ms)])

\* a bridge marker without coordinates
NoPositionMarker ==
  O([height_m |-> N(46), risk_level |-> S("high"),
     message |-> S("Bridge without a position")])

\* a full route whose first bridge marker cannot be drawn
PayloadBadMarker == RouteWithMarkers(<<NoPositionMarker, Bridge(53740)>>)

\* a bridge at latitude lat whose risk level is level
RiskMarker(lat, level) ==
  O([lat |-> N(lat), lon |-> N(-1500), height_m |-> N(46), risk_level |-> S(level),
     level |-> S(level), message |-> S("Low bridge"), description |-> S("Low bridge")])

RiskMarkers == A(<<RiskMarker(53740, "high"), RiskMarker(53741, "medium"),
                   RiskMarker(53742, "low")>>)

\* a line as the front ends expect it: a GeoJSON LineString ("geojson") or a
\* bare coordinate array ("array")
LineAs(shape, coords) == IF shape = "geojson" THEN LineString(coords) ELSE coords

GeometryShapes == {"geojson", "array"}

\* an alternative route and three bridges of three risk levels (under every
\* name a front end reads bridges from), with or without a main route
MarkersBody(shape, withMain) ==
  IF withMain
    THEN O([distance_km |-> N(100), duration_min |-> N(200),
            geometry |-> LineAs(shape, Line2),
            alt_geometry |-> LineAs(shape, AltLine3),
            bridge_markers |-> RiskMarkers, bridge_warnings |-> RiskMarkers,
            bridge_points |-> RiskMarkers, hazards |-> RiskMarkers])
    ELSE O([distance_km |-> N(100), duration_min |-> N(200),
            alt_geometry |-> LineAs(shape, AltLine3),
            bridge_markers |-> RiskMarkers, bridge_warnings |-> RiskMarkers,
            bridge_points |-> RiskMarkers, hazards |-> RiskMarkers])

MarkerPayloads ==
  <<MarkersBody("geojson", TRUE), MarkersBody("geojson", FALSE),
    MarkersBody("array", TRUE), MarkersBody("array", FALSE)>>

\* the flat shape with a line one of whose points is null
PayloadBrokenLine ==
  O([distance_km |-> N(273), duration_min |-> N(420), bridge_risk |-> S("High risk"),
     nearest_bridge_height_m |-> N(46), nearest_bridge_distance_m |-> N(1300),
     geometry |-> LineString(A(<<Pt(-1600, 53800), Null>>))])

FieldPayloads == <<PayloadTwoSummaries, PayloadSummaryNames, PayloadTwoWarnings,
                   PayloadManyGeometries, PayloadTwoLines, PayloadMainGeojson,
                   PayloadManyMarkers, PayloadHazards,
                   PayloadEmptyWarnings, PayloadTwoWarningItems, PayloadBadMarker>>
                   \o RiskPayloads \o MarkerPayloads
                   \o <<PayloadBrokenLine>>

FieldPayloadIds == 1..Len(FieldPayloads)

\* a 2xx response whose body is FieldPayloads[p]
FieldResponse(p) ==
  [RespOk(1) EXCEPT !.payload = Len(Payloads) + p, !.body = FieldPayloads[p]]

TypicalInput ==
  [start |-> <<"L", "S", "1">>, end |-> <<"M", "1">>, height |-> <<"4", ".", "9">>]

NextRender ==
  \/ Submit(TypicalInput)
  \/ \E q \in inflight : FetchResolve(q)
  \/ \E q \in inflight, p \in FieldPayloadIds : BodyResolve(q, FieldResponse(p))

SpecRender == Init /\ [][NextRender]_vars

(***************************************************************************)
(* The backend of part_000 (lines 1-203) and the page talking to it.       *)
(***************************************************************************)
\* raise HTTPException(status_code=code, detail=detail)
HTTPException(code, detail) ==
  [raised |-> TRUE, status_code |-> code, detail |-> detail, value |-> Null]

\* return value
Returned(value) == [raised |-> FALSE, status_code |-> 200, detail |-> "", value |-> value]

\* a threshold that takes in 4.8 m itself
high_riskFrom(vehicle_height_m) == vehicle_height_m >= 48

\* line 123; vehicle_height_m in tenths of a metre
high_risk(vehicle_height_m) == vehicle_height_m > 48

\* lines 122-203; vehicle_height_m in tenths of a metre.  The marker's
\* message is written in the source with the three characters U+00E2 U+20AC
\* U+201C where the page's own demo route has a dash.
build_demo_route(start, end, vehicle_height_m) ==
  LET demo_line == LineString(A(<<Pt(-1602, 53758), Pt(-1550, 53750), Pt(-1480, 53740),
                                  Pt(-1350, 53730), Pt(-2250, 53480)>>))
      alt_line == IF high_risk(vehicle_height_m)
                    THEN LineString(A(<<Pt(-1602, 53758), Pt(-1620, 53720), Pt(-1700, 53680),
                                        Pt(-1900, 53580), Pt(-2250, 53480)>>))
                    ELSE Null
      bridge_markers ==
        IF high_risk(vehicle_height_m)
          THEN <<O([lat |-> N(53740), lon |-> N(-1500), height_m |-> N(46),
                    risk_level |-> S("high"),
                    message |-> S("Low bridge 4.6 m [U+00E2][U+20AC][U+201C] main route diverted.")])>>
          ELSE <<>>
      warnings ==
        IF high_risk(vehicle_height_m)
          THEN <<O([level |-> S("high"),
                    message |-> S("Low bridge (4.6 m) detected near Morley; main route diverted.")])>>
          ELSE <<>>
      bridge_risk ==
        O([level |-> S(IF high_risk(vehicle_height_m) THEN "high" ELSE "low"),
           status_text |-> S(IF high_risk(vehicle_height_m)
                               THEN "Low bridge on direct path; alternative offered."
                               ELSE "No conflicts detected for this height."),
           nearest_bridge_height_m |-> N(IF high_risk(vehicle_height_m) THEN 46 ELSE 52),
           nearest_bridge_distance_m |-> N(1300)])
      summary == O([distance_km |-> N(273), duration_min |-> N(420)])
      steps == <<O([instruction |-> S("Start at " \o start)]),
                 O([instruction |-> S("Head towards M62 via A650.")]),
                 O([instruction |-> S(IF high_risk(vehicle_height_m)
                      THEN "Follow HGV diversion avoiding low bridge near Morley."
                      ELSE "Follow primary route through Morley.")]),
                 O([instruction |-> S("Arrive at " \o end \o ".")])>>
  IN  O([summary |-> summary,
         distance_km |-> Get(summary, "distance_km"),
         duration_min |-> Get(summary, "duration_min"),
         bridge_risk |-> bridge_risk,
         warnings |-> A(warnings),
         steps |-> A(steps),
         geometry |-> demo_line,
         alt_geometry |-> alt_line,
         bridge_markers |-> A(bridge_markers)])

\* the endpoint refusing negative heights only
api_routeNegative(req) ==
  IF req.vehicle_height_m < 0
    THEN HTTPException(400, "Vehicle height must be > 0")
    ELSE Returned(build_demo_route(req.start, req.end, req.vehicle_height_m))

\* lines 105-117; req is a RouteRequest
api_route(req) ==
  IF req.vehicle_height_m <= 0
    THEN HTTPException(400, "Vehicle height must be > 0")
    ELSE Returned(build_demo_route(req.start, req.end, req.vehicle_height_m))

\* lines 50-54: a JSON body is a RouteRequest when its vehicle_height_m is a
\* number (JSON.stringify writes NaN as null)
IsRouteRequest(body) == body.vehicle_height_m.t = "num"

RouteRequest(body) ==
  [start |-> body.start, end |-> body.end, vehicle_height_m |-> body.vehicle_height_m.n,
   avoid_low_bridges |-> TRUE]

\* a route for a vehicle up to 4.8 m and one for a taller vehicle
DemoPayloadId(value) ==
  Len(Payloads) + Len(FieldPayloads)
    + (IF Get(Get(value, "bridge_risk"), "level") = S("high") THEN 2 ELSE 1)

\* what the page's fetch resolves with when the backend answers the POST
\* whose JSON body is body
Answer(body) ==
  IF ~IsRouteRequest(body) THEN Resp422
  ELSE LET r == api_route(RouteRequest(body))
       IN  IF r.raised
             THEN [ok |-> FALSE, status |-> r.status_code, ctJson |-> TRUE, parses |-> TRUE,
                   payload |-> 0, body |-> O([detail |-> S(r.detail)]),
                   text |-> "{\"detail\":\"" \o r.detail \o "\"}"]
             ELSE [ok |-> TRUE, status |-> r.status_code, ctJson |-> TRUE, parses |-> TRUE,
                   payload |-> DemoPayloadId(r.value), body |-> r.value, text |-> "{...}"]

\* heights on both sides of the 4.8 m threshold and of zero
HeightSamples ==
  { [start |-> <<"L", "S", "1">>, end |-> <<"M", "1">>, height |-> <<"4", ".", "8">>],
    [start |-> <<"L", "S", "1">>, end |-> <<"M", "1">>, height |-> <<"0", ".", "1">>],
    [start |-> <<"M", "1">>, end |-> <<"L", "S", "1">>, height |-> <<"5">>] }

\* the complete inputs among InputSamples, and the heights above
BackendInputs ==
  {in \in InputSamples : in.start = <<"L", "S", "1">> /\ in.end = <<"M", "1">>
                            /\ in.height # <<>>}
    \cup HeightSamples

\* the backend answers request q and the handler runs to its end
Serve(q) == BodyResolve(q, Answer(q.body))

NextBackend ==
  \/ \E in \in BackendInputs : Submit(in)
  \/ \E q \in inflight : FetchFail(q)
  \/ \E q \in inflight : FetchResolve(q)
  \/ \E q \in inflight : Serve(q)

SpecBackend == Init /\ [][NextBackend]_vars

(***************************************************************************)
(* The duration formatters on their own: formatMinutes of part_004 and of  *)
(* part_006 (lines 228-431) applied to the duration_min of a response.     *)
(***************************************************************************)
\* part_006 lines 299-305; mins in tenths of a minute
formatMinutes_p6(mins) ==
  IF Nullish(mins) THEN "--"
  ELSE IF mins.t = "nan" THEN "NaN hr"
  ELSE IF mins.n < 600 THEN IntStrSigned(MathRound(mins.n)) \o " min"
  ELSE IF MathRound(mins.n % 600) # 0
    THEN IntStr(mins.n \div 600) \o " hr " \o IntStr(MathRound(mins.n % 600)) \o " min"
  ELSE IntStr(mins.n \div 600) \o " hr"

FormatVariants == {"p4", "p6"}

\* the longest duration formatted, in tenths of a minute
MaxDuration == 1300

\* part_006 line 397: summaryTime.textContent = formatMinutes(data.duration_min)
FormatMinutesOf(var, mins) ==
  CASE var = "p4" -> formatMinutes_p4(mins)
    [] var = "p6" -> formatMinutes_p6(mins)

InitFormat ==
  /\ variant \in FormatVariants
  /\ domOk = TRUE
  /\ btnDisabled = FALSE
  /\ inflight = {}
  /\ view = InitView
  /\ nPosts = 0
  /\ last = NoRun

\* the duration of a response, mins tenths of a minute, is written to the page
FormatDuration(mins) ==
  /\ view' = [view EXCEPT !.duration = FormatMinutesOf(variant, N(mins))]
  /\ last' = [NoRun EXCEPT !.kind = "format",
                           !.resp = [RespOk(1) EXCEPT !.payload = 0,
                                                      !.body = O([duration_min |-> N(mins)])]]
  /\ UNCHANGED <<variant, domOk, btnDisabled, inflight, nPosts>>

NextFormat == \E mins \in 0..MaxDuration : FormatDuration(mins)

SpecFormat == InitFormat /\ [][NextFormat]_vars

(***************************************************************************)
(* normalisePostcode on its own: the handler of part_000 run on every      *)
(* short text of letters, digits and spaces typed as the start.   *)
(***************************************************************************)
PostcodeChars == {"a", "1", " "}

\* the longest text typed
MaxLen == 8

Texts == UNION {[1..n -> PostcodeChars] : n \in 0..MaxLen}

\* the text is in the start field when the page is submitted
InitPostcode ==
  /\ variant = "p0"
  /\ domOk = TRUE
  /\ btnDisabled = FALSE
  /\ inflight = {}
  /\ view = InitView
  /\ nPosts = 0
  /\ \E s \in Texts :
       last = [NoRun EXCEPT !.in = [start |-> s, end |-> <<"M", "1">>, height |-> <<"4">>]]

\* the form is submitted as it stands, once
SubmitTyped == last.kind = "none" /\ Submit(last.in)

NextPostcode == SubmitTyped

SpecPostcode == InitPostcode /\ [][NextPostcode]_vars

(***************************************************************************)
(* Properties of the page.                                                 *)
(***************************************************************************)
Blank(q) == Trim(q) = <<>>

\* a height text that does not start with a number, or whose number is not
\* positive (the reading of "numeric" that admits the most texts)
InvalidHeight(q) == isNaN(parseFloat(Trim(q))) \/ parseFloat(Trim(q)).n <= 0

\* the page without its status line and error banner
Frame(v) == [v EXCEPT !.status = "", !.error = "", !.errorShown = FALSE]

\* the status texts that report progress or success
NeutralStatus ==
  {"", "Calculating HGV-safe route...", "Contacting RouteSafe API...",
   "Contacting RouteSafe engine...", "Requesting route...",
   "Requesting safe HGV route from RouteSafe-AI...", "Requesting safe HGV route...",
   "Route generated successfully.", "Route generated using RouteSafe-AI",
   "Route generated.", "Route loaded.", "Safe route generated."}

\* the page shows a message about something having gone wrong
MessageVisible(v) == (v.errorShown /\ v.error # "") \/ v.status \notin NeutralStatus

\* the status line or the error banner reads exactly s
BannerIs(v, s) == (v.errorShown /\ v.error = s) \/ v.status = s

ErrorOutcomes ==
  {"missingField", "invalidHeight", "missingElements", "netfail", "http", "parse", "render"}

\* this step is a handler finishing with its request
SettleStep == last'.kind = "settle" /\ inflight' # inflight /\ inflight' \subseteq inflight

\* the last step handled a 2xx response whose body parsed
Handled2xx == last.kind = "settle" /\ last.resp.ok /\ last.resp.parses

\* the payloads with no geometry field anywhere
NoGeometryPayloads ==
  {p \in PayloadIds : Get(Payloads[p], "geometry") = U /\ Get(Payloads[p], "route") = U}

\* C1: a submission with a blank start, end or height, or with an invalid
\* height, issues no POST, whichever variant runs.
C1_NoPostOnInvalidInput ==
  (last.kind = "submit"
     /\ (Blank(last.in.start) \/ Blank(last.in.end) \/ Blank(last.in.height)
           \/ InvalidHeight(last.in.height)))
    => ~last.post

\* C2: a height text that is not numeric, or that denotes a value <= 0, is
\* rejected with the invalid-height error and nothing is sent.
C2_InvalidHeightRejected ==
  (last.kind = "submit" /\ domOk
     /\ ~Blank(last.in.start) /\ ~Blank(last.in.end) /\ ~Blank(last.in.height)
     /\ InvalidHeight(last.in.height))
    => (last.outcome = "invalidHeight" /\ ~last.post)

\* C3: while a request is outstanding the submit control is disabled, so
\* there is never more than one request outstanding.
C3_DisabledWhileOutstanding ==
  (inflight # {} => btnDisabled) /\ Cardinality(inflight) <= 1

\* C4: every error path of a submission ends with a message on the page and
\* the submit control enabled.
C4_ErrorPathsEndVisible ==
  (last.kind \in {"submit", "settle"} /\ last.outcome \in ErrorOutcomes)
    => (MessageVisible(view) /\ ~btnDisabled)

\* C5: a request that fails (network error or non-2xx response) changes the
\* status line and error banner only: summary, lists, result card and map
\* layers stay as they were.
C5_FailureLeavesResults ==
  [][(SettleStep /\ last'.outcome \in {"netfail", "http"}) => Frame(view') = Frame(view)]_vars

\* C6: a non-2xx response with body {detail: s}, s a text, puts exactly s
\* in the banner, renders nothing and leaves the map layers alone.
C6_DetailShownVerbatim ==
  [][(SettleStep /\ last'.outcome = "http" /\ last'.resp = Resp400)
       => (BannerIs(view', DetailText) /\ Frame(view') = Frame(view))]_vars

\* C7: handling a 2xx response never raises, whatever JSON object its body
\* is; for the body {} distance and duration show their placeholder and
\* the risk badge names no risk level.
C7_HandlingIsTotal ==
  Handled2xx
    => /\ last.outcome = "ok"
       /\ Payloads[last.resp.payload] = PayloadEmpty
            => /\ view.distance = "--" /\ view.duration = "--"
               /\ view.badgeText \in {"", "--", "Unknown", "No data"}

\* C8: after a response has been handled successfully the layers on the map
\* are exactly those that response draws, also when it has no geometry or
\* an empty one.
C8_LayersAreLatest ==
  (last.kind = "settle" /\ last.outcome = "ok")
    => view.map = RenderOf(variant, InitView, Payloads[last.resp.payload]).v.map

\* C9: rendering is idempotent: once a response has been rendered, rendering
\* it again raises nothing and leaves the whole page (texts, list items,
\* layers) as it is.
C9_RenderIdempotent ==
  (last.kind = "settle" /\ last.outcome = "ok")
    => /\ ~RenderOf(variant, view, Payloads[last.resp.payload]).ex
       /\ RenderOf(variant, view, Payloads[last.resp.payload]).v = view

\* the demo response, with two lines, a marker, a warning and two steps, has
\* just been rendered a second time in a row by renderRouteResult
C9_Witness ==
  /\ variant = "p1b" /\ last.kind = "settle" /\ last.outcome = "ok" /\ last.rep
  /\ Payloads[last.resp.payload] = PayloadDemoHigh
  /\ view.map.main # <<>> /\ view.map.alt # <<>> /\ view.map.bridges # <<>>
  /\ Len(view.warnings) = 1 /\ Len(view.steps) = 2

\* C10: a 2xx response without any geometry field leaves no polyline on the
\* map and raises nothing, and the summary shows its other fields.
C10_NoGeometryNoPolylines ==
  (Handled2xx /\ last.resp.payload \in NoGeometryPayloads)
    => /\ last.outcome = "ok"
       /\ view.map.main = <<>> /\ view.map.alt = <<>>
       /\ Payloads[last.resp.payload] = PayloadNoGeometry => view.distance = "12.5 km"

\* the last step handled the 2xx response carrying payload p
HandledPayload(p) == Handled2xx /\ last.resp.payload > 0 /\ Payloads[last.resp.payload] = p

\* C11: for the response {summary: {distance_km: 27.3, duration_min: 42},
\* bridge_risk: {level: "high", status_text: "x"}, warnings: ["w1"],
\* steps: ["s1"], geometry: a LineString of 2 points} the page shows the
\* distance "27.3 km", the duration "42 min", one warning item "w1", one
\* step item and exactly one solid polyline, of 2 points.
C11_CanonicalRendering ==
  HandledPayload(PayloadCanonical)
    => /\ last.outcome = "ok"
       /\ view.distance = "27.3 km"
       /\ view.duration = "42 min"
       /\ view.warnings = <<"w1">>
       /\ Len(view.steps) = 1
       /\ Len(view.map.main) = 1
       /\ Len(view.map.main[1]) = 2

\* start and end are not blank and the height text is a number above zero
ValidQuery(in) ==
  /\ ~Blank(in.start) /\ ~Blank(in.end)
  /\ ToNumber(in.height).t = "num" /\ ToNumber(in.height).n > 0

\* the requests the last submission issued
Issued == {q \in inflight : last.kind = "submit" /\ last.post /\ q.id = nPosts}

\* the letters and digits of a text, upper-cased
Alnums(q) == SelectSeq([i \in 1..Len(q) |-> UpperChar(q[i])], IsAlnum)

\* a text of 5 to 7 letters and digits written as a UK postcode
PostcodeForm(q) ==
  SubSeq(Alnums(q), 1, Len(Alnums(q)) - 3) \o <<" ">>
    \o SubSeq(Alnums(q), Len(Alnums(q)) - 2, Len(Alnums(q)))

\* the texts a request may carry for the place typed as q
PlaceForms(q) ==
  {Join(Trim(q))} \cup (IF Len(Alnums(q)) \in 5..7 THEN {Join(PostcodeForm(q))} ELSE {})

\* C12 (as stated): for every input with non-blank start and end and a
\* height above zero, the request carries start and end equal to the trimmed
\* inputs and vehicle_height_m equal to the height entered.
C12_RequestCarriesTrimmedInputs ==
  \A q \in Issued :
    ValidQuery(last.in)
      => /\ q.body.start = Join(Trim(last.in.start))
         /\ q.body.end = Join(Trim(last.in.end))
         /\ q.body.vehicle_height_m = ToNumber(last.in.height)

\* C12 (amended): for every input with non-blank start and end and a height
\* above zero, the request carries for start and for end either the trimmed
\* input or, when the input has 5 to 7 letters and digits, its postcode form
\* (upper case, a space before the last three), never an empty text, and
\* vehicle_height_m equal to the height entered.
C12_RequestCarriesPlaceForms ==
  \A q \in Issued :
    ValidQuery(last.in)
      => /\ q.body.start \in PlaceForms(last.in.start) \ {""}
         /\ q.body.end \in PlaceForms(last.in.end) \ {""}
         /\ q.body.vehicle_height_m = ToNumber(last.in.height)

\* a valid submission whose request carries a postcode form that is not the
\* trimmed input
C12_Witness ==
  \E q \in Issued :
    /\ ValidQuery(last.in)
    /\ q.body.start = Join(PostcodeForm(last.in.start))
    /\ q.body.start # Join(Trim(last.in.start))

\* this step is a run of the submit handler up to its fetch: no request
\* that was outstanding has moved
SubmitStep == last'.kind = "submit" /\ inflight \subseteq inflight'

\* C13: each accepted submission issues exactly one POST, with a JSON body
\* and the application/json content type; no other step issues a request,
\* so that after a failure nothing is sent again until the next submission.
C13_OnePostPerSubmission ==
  [][/\ (SubmitStep /\ last'.outcome = "sent")
          => /\ nPosts' = nPosts + 1
             /\ \E q \in inflight' :
                  /\ inflight' = inflight \cup {q} /\ q \notin inflight
                  /\ q.id = nPosts' /\ q.pc = "fetch"
                  /\ q.method = "POST" /\ q.json /\ q.contentType = "application/json"
     /\ (SubmitStep /\ last'.outcome # "sent")
          => (nPosts' = nPosts /\ inflight' = inflight)
     /\ ~SubmitStep
          => /\ nPosts' = nPosts
             /\ {q.id : q \in inflight'} \subseteq {q.id : q \in inflight}]_vars

\* a request has failed and nothing is outstanding or was sent after it
C13_Witness ==
  /\ last.kind = "settle" /\ last.outcome \in {"netfail", "http"}
  /\ nPosts = 1 /\ inflight = {}

\* the last step handled a 2xx response with the body b
HandledBody(b) == Handled2xx /\ last.resp.body = b

\* the text shows the number n (in tenths), in one of the ways the pages
\* write a number, followed by a unit or by nothing
ShowsNumber(text, n) ==
  \E r \in {NumStr(n), toFixed0(n), toFixed1(n), toFixed2(n)} :
    \E unit \in {"", " km", " min", "km", "min", " mins"} : text = r \o unit

\* C14: the distance shown is the first present of distance_km,
\* summary.distance_km, summary.distance, and the duration the first present
\* of duration_min, summary.duration_min, summary.duration.
C14_SummaryFieldOrder ==
  /\ HandledBody(PayloadTwoSummaries)
       => (ShowsNumber(view.distance, 100) /\ ShowsNumber(view.duration, 200))
  /\ HandledBody(PayloadSummaryNames)
       => (ShowsNumber(view.distance, 273) /\ ShowsNumber(view.duration, 420))

\* C15: the warnings list is the first present of warnings and
\* bridge_warnings: for a response carrying both, the items shown are those
\* of warnings.
C15_WarningsFieldOrder ==
  HandledBody(PayloadTwoWarnings) => view.warnings = <<"w-a">>

\* the polyline Leaflet draws for GeoJSON coordinates
Drawn(coords) == [i \in 1..Len(coords.a) |-> LatLng(coords.a[i])]

\* C16: the main route is the first present of geometry, main_geometry,
\* main_route.geometry, main_geojson, and a response carrying any one of
\* them has it drawn as the main route.
C16_GeometryFieldOrder ==
  /\ HandledBody(PayloadManyGeometries) => view.map.main = <<Drawn(Line2)>>
  /\ HandledBody(PayloadTwoLines) => view.map.main = <<Drawn(Line2)>>
  /\ HandledBody(PayloadMainGeojson) => view.map.main = <<Drawn(Line2)>>

\* the latitudes of the bridge markers on the map
MarkerLats == [i \in 1..Len(view.map.bridges) |-> view.map.bridges[i].at[1]]

\* C17: the bridge markers are the first present of bridge_markers, bridges,
\* bridge_warnings, hazards, and a response carrying any one of them has its
\* markers drawn.
C17_MarkerFieldOrder ==
  /\ HandledBody(PayloadManyMarkers) => MarkerLats = <<N(53740)>>
  /\ HandledBody(PayloadHazards) => MarkerLats = <<N(53743)>>

\* C18: each warning of the response is one list item, and an empty list of
\* warnings is shown as exactly one placeholder item: after a response the
\* warnings view is never an empty list.
C18_WarningsNeverBlank ==
  /\ HandledBody(PayloadTwoWarningItems) => view.warnings = <<"w-a", "w-b">>
  /\ HandledBody(PayloadEmptyWarnings)
       => (Len(view.warnings) = 1 /\ view.warnings[1] \notin {"", "w-a", "w-b"})

\* the badge class the running front end gives a route of that risk level
ClassOf(shape, level) == RenderOf(variant, InitView, RiskBody(shape, level)).v.badgeClass

\* the classes of the three levels, in one shape of response
SeverityClasses(shape) == {ClassOf(shape, "low"), ClassOf(shape, "medium"), ClassOf(shape, "high")}

\* C19: the class of the risk badge is a function of the risk level of the
\* response only; low, medium and high have three distinct classes, and an
\* absent or unrecognised level has a neutral one, none of those three.
C19_BadgeClassByLevel ==
  \E shape \in RiskShapes :
    /\ Cardinality(SeverityClasses(shape)) = 3
    /\ ClassOf(shape, "severe") \notin SeverityClasses(shape)
    /\ ClassOf(shape, "") \notin SeverityClasses(shape)
    /\ \A level \in {"low", "medium", "high", "severe", ""} :
         HandledBody(RiskBody(shape, level)) => view.badgeClass = ClassOf(shape, level)
    /\ \A p \in FieldPayloadIds :
         (HandledBody(FieldPayloads[p]) /\ last.outcome = "ok"
            /\ Get(FieldPayloads[p], "bridge_risk") = U)
           => view.badgeClass = ClassOf(shape, "")

\* the response of PayloadBadMarker without the marker that cannot be drawn
GoodMarkersResponse ==
  [RespOk(1) EXCEPT !.payload = 0, !.body = RouteWithMarkers(<<Bridge(53740)>>)]

\* C20: a bridge marker that cannot be drawn is skipped alone: the page
\* after the response is the page the same response without that marker
\* gives (main and alternative route, the other markers, summary, warnings
\* and steps).
C20_BadMarkerSkippedAlone ==
  [][(SettleStep /\ HandledBody(PayloadBadMarker)')
       => \A q \in inflight \ inflight' :
            view' = SettleOf(variant, view, GoodMarkersResponse, q.body).v]_vars

\* C21: the result on the page is that of the query submitted last: a
\* response rendered when nothing is outstanding any more, over the rendered
\* result of another response, is the response to the latest request.
C21_LatestQueryShown ==
  [][(SettleStep /\ last'.outcome = "ok" /\ inflight' = {}
        /\ last.kind = "settle" /\ last.outcome = "ok" /\ last.resp # last'.resp)
       => \A q \in inflight \ inflight' : q.id = nPosts]_vars

\* the points of everything on the map: lines, dashed lines, bridge markers
AllDrawn(v) ==
  LinePoints(v.map.main) \cup LinePoints(v.map.alt)
    \cup {v.map.bridges[i].at : i \in 1..Len(v.map.bridges)}

\* the bounding box of a set of points that is not empty
Bounds(ps) ==
  [south |-> CHOOSE x \in {p[1].n : p \in ps} : \A y \in {p[1].n : p \in ps} : x <= y,
   north |-> CHOOSE x \in {p[1].n : p \in ps} : \A y \in {p[1].n : p \in ps} : x >= y,
   west |-> CHOOSE x \in {p[2].n : p \in ps} : \A y \in {p[2].n : p \in ps} : x <= y,
   east |-> CHOOSE x \in {p[2].n : p \in ps} : \A y \in {p[2].n : p \in ps} : x >= y]

MapOf(body) == RenderOf(variant, InitView, body).v.map

\* the map shows the main route (if there is one) solid, the alternative
\* route dashed, and the three bridges in three colours
DrawsAll(m, withMain) ==
  /\ m.main = IF withMain THEN <<Drawn(Line2)>> ELSE <<>>
  /\ m.alt = <<Drawn(AltLine3)>>
  /\ [i \in 1..Len(m.bridges) |-> m.bridges[i].at[1]] = <<N(53740), N(53741), N(53742)>>
  /\ Cardinality({m.bridges[i].color : i \in 1..Len(m.bridges)}) = 3

\* C23: for every response the map shows the main geometry as a solid line,
\* the alternative geometry, when present, as a dashed line, and every
\* bridge marker with coordinates in the colour of its own risk level,
\* whether or not there is a main geometry.
C23_DrawsEveryLayer ==
  \E shape \in GeometryShapes :
    \A withMain \in BOOLEAN :
      /\ DrawsAll(MapOf(MarkersBody(shape, withMain)), withMain)
      /\ (HandledBody(MarkersBody(shape, withMain)) /\ last.outcome = "ok")
           => view.map = MapOf(MarkersBody(shape, withMain))

\* a step in which the backend's answer to a request was handled
ServeStep == \E q \in inflight : q.pc = "body" /\ inflight' = inflight \ {q}

\* the JSON body of the request a ServeStep has just answered
Answered == (CHOOSE q \in inflight : inflight' = inflight \ {q}).body

\* C24: the backend answers a request whose vehicle_height_m is <= 0 with
\* status 400, detail "Vehicle height must be > 0" and no route payload, and
\* a request whose vehicle_height_m is > 0 with the demo payload.
C24_BackendRejectsNonPositiveHeight ==
  [][(ServeStep /\ Answered.vehicle_height_m.t = "num")
       => LET h == Answered.vehicle_height_m.n
              r == last'.resp
          IN  /\ h <= 0 => /\ r.status = 400 /\ ~r.ok
                           /\ r.body = O([detail |-> S("Vehicle height must be > 0")])
                           /\ Get(r.body, "summary") = U /\ Get(r.body, "geometry") = U
              /\ h > 0 => /\ r.status = 200 /\ r.ok
                          /\ Get(r.body, "detail") = U
                          /\ Get(r.body, "summary")
                               = O([distance_km |-> N(273), duration_min |-> N(420)])
                          /\ Get(Get(r.body, "geometry"), "type") = S("LineString")
                          /\ r.body.f.steps.a[1]
                               = O([instruction |-> S("Start at " \o Answered.start)])]_vars

\* a request with a height of zero or less has been refused with status 400
C24_Witness400 ==
  last.kind = "settle" /\ last.resp.status = 400 /\ last.resp.body = O([detail |-> S(DetailText)])

DemoStatus == "RouteSafe engine not reachable; showing demo route layout only."

\* the page shows the demo route that the page itself makes up
ShowsDemo(v) == v.status = DemoStatus /\ ~v.cardHidden /\ v.map.main # <<>>

\* C25: the page with the demo fallback shows its made-up demo route, under
\* a warning status, when the backend cannot be reached and only then; a
\* 2xx response that has arrived is never replaced by the demo route.
C25_DemoOnlyWhenUnreachable ==
  [][(variant = "p1a" /\ SettleStep)
       => /\ last'.outcome = "netfail" => ShowsDemo(view')
          /\ last'.outcome # "netfail" => view'.status # DemoStatus]_vars

\* the status texts with which the pages announce a finished route
SuccessStatus ==
  {"Route generated successfully.", "Route generated using RouteSafe-AI",
   "Route generated.", "Route loaded.", "Safe route generated."}

\* C26: a submission ends under the success message only if every view was
\* updated from its response; when a render step raised, the page does not
\* end up showing the success message.
C26_SuccessMeansRendered ==
  [][(SettleStep /\ view'.status \in SuccessStatus)
       => /\ last'.outcome = "ok"
          /\ last'.resp.ok /\ last'.resp.parses
          /\ ~RenderOf(variant, view, last'.resp.body).ex]_vars

\* the vehicle height h (a JavaScript value, in tenths of a metre) is above 4.8 m
Above48(h) == h.t = "num" /\ h.n > 48

\* demo payload p is the one for a high risk route, or for a low risk one,
\* according to high, in all four of level, alternative, warnings and markers
Consistent(p, high) ==
  /\ Get(Get(p, "bridge_risk"), "level") = S(IF high THEN "high" ELSE "low")
  /\ ~Nullish(Get(p, "alt_geometry")) <=> high
  /\ Get(p, "warnings").t = "arr" /\ (Get(p, "warnings").a # <<>> <=> high)
  /\ Get(p, "bridge_markers").t = "arr" /\ (Get(p, "bridge_markers").a # <<>> <=> high)

\* C27: the demo payload, the backend's and the page's own, is consistent
\* for every height: its level is "high" exactly when the height is above
\* 4.8 m, and exactly then it has an alternative geometry, a warning and a
\* bridge marker; otherwise the level is "low", there is no alternative and
\* both lists are empty.
C27_DemoPayloadConsistent ==
  [][/\ (ServeStep /\ last'.resp.ok)
          => Consistent(last'.resp.body, Above48(Answered.vehicle_height_m))
     /\ \A q \in inflight' :
          Consistent(buildDemoRoute_p1(q.body.start, q.body.end, q.body.vehicle_height_m),
                     Above48(q.body.vehicle_height_m))]_vars

\* the backend has sent the demo payload for a vehicle above 4.8 m
C27_WitnessHigh ==
  /\ last.kind = "settle" /\ last.resp.ok
  /\ Get(Get(last.resp.body, "bridge_risk"), "level") = S("high")
  /\ ~Nullish(Get(last.resp.body, "alt_geometry"))

\* C28: the page's buildDemoRoute and the backend's build_demo_route return
\* the same payload (summary, distance and duration, bridge_risk, warnings,
\* steps, geometry, alt_geometry, bridge_markers) for every start, end and
\* height.
C28_SameDemoPayload ==
  \A q \in inflight :
    q.body.vehicle_height_m.t = "num"
      => buildDemoRoute_p1(q.body.start, q.body.end, q.body.vehicle_height_m)
           = build_demo_route(q.body.start, q.body.end, q.body.vehicle_height_m.n)

\* the two demo payloads but for the messages of their bridge markers
C28_SameButMarkerMessage ==
  \A q \in inflight :
    q.body.vehicle_height_m.t = "num"
      => LET js == buildDemoRoute_p1(q.body.start, q.body.end, q.body.vehicle_height_m)
             py == build_demo_route(q.body.start, q.body.end, q.body.vehicle_height_m.n)
             NoMessage(m) == [k \in DOMAIN m.f \ {"message"} |-> m.f[k]]
         IN  /\ \A k \in DOMAIN js.f \ {"bridge_markers"} : js.f[k] = py.f[k]
             /\ DOMAIN js.f = DOMAIN py.f
             /\ Len(js.f.bridge_markers.a) = Len(py.f.bridge_markers.a)
             /\ \A i \in 1..Len(js.f.bridge_markers.a) :
                  NoMessage(js.f.bridge_markers.a[i]) = NoMessage(py.f.bridge_markers.a[i])

\* the duration, in tenths of a minute, that the page has just formatted
Formatted == Get(last.resp.body, "duration_min").n

\* h hours and m minutes as the pages write them; the minutes are left out
\* when there are none
HoursAndMinutes(h, m) ==
  IF m = 0 THEN {IntStr(h) \o "h", IntStr(h) \o " hr"}
  ELSE {IntStr(h) \o "h " \o IntStr(m) \o "m", IntStr(h) \o " hr " \o IntStr(m) \o " min"}

\* C29: for every duration of 60 minutes or more formatMinutes writes hours
\* h and minutes m with 0 <= m <= 59 and h*60 + m the duration rounded to
\* the nearest minute; it never writes 60 minutes.
C29_MinutesBelowSixty ==
  (last.kind = "format" /\ Formatted >= 600)
    => \E h \in 1..(MaxDuration \div 600 + 1), m \in 0..59 :
         /\ h * 60 + m = MathRound(Formatted)
         /\ view.duration \in HoursAndMinutes(h, m)

\* c is a letter or a digit
IsLetterOrDigit(c) ==
  IsDigit(c) \/ \E i \in 1..26 : c = LowerChars[i] \/ c = UpperChars[i]

\* the letters and digits of a text as typed
TypedAlnums(q) == SelectSeq(q, IsLetterOrDigit)

\* the text q in upper case with one space before its last three characters
SpacedUpper(q) ==
  [i \in 1..(Len(q) + 1) |->
     IF i < Len(q) - 2 THEN UpperChar(q[i])
     ELSE IF i = Len(q) - 2 THEN " "
     ELSE UpperChar(q[i - 1])]

\* C30: normalisePostcode is idempotent, normalisePostcode(normalisePostcode(s))
\* = normalisePostcode(s) for every text s, and for a text with 5 to 7
\* letters and digits its result is those characters in upper case with
\* exactly one space, before the last three.
C30_NormaliseIdempotent ==
  \A q \in inflight :
    LET s == last.in.start
        sent == normalisePostcode(s)
    IN  /\ q.body.start = Join(sent)
        /\ normalisePostcode(sent) = sent
        /\ Len(TypedAlnums(s)) \in 5..7 => sent = SpacedUpper(TypedAlnums(s))

\* a text of 5 to 7 letters and digits with spaces between or around them
\* has been sent as a postcode
C30_Witness ==
  \E q \in inflight :
    /\ Len(TypedAlnums(last.in.start)) \in 5..7
    /\ Len(last.in.start) > Len(TypedAlnums(last.in.start)) + 1
    /\ q.body.start = Join(SpacedUpper(TypedAlnums(last.in.start)))

====
